---- MODULE Spec2Model ----
(***************************************************************************)
(* The ABS MCP adapter (seansoreilly/servers, src/abs).  The repository    *)
(* holds several drafts of the same server; each draft is one             *)
(* "implementation" here, named after the file that holds it:             *)
(*   index_1   src/src/abs/index.ts lines   1-159 (schemas: part_007)      *)
(*   index_2   src/src/abs/index.ts lines 160-571 (schemas: schemas.ts)    *)
(*   part_001  src/unnamed/part_001            (schemas: schemas.ts)       *)
(*   part_002  src/unnamed/part_002            (schemas: part_008)         *)
(*   part_003  src/unnamed/part_003            (schemas: schemas.ts)       *)
(*   part_004  src/unnamed/part_004            (schemas in the file)       *)
(*   part_005  src/unnamed/part_005            (schemas in the file)       *)
(*   part_006  src/unnamed/part_006            (schemas: schemas.ts)       *)
(* A process runs exactly one implementation (variable impl).  A tool call *)
(* runs the CallToolRequestSchema handler up to its first await of fetch   *)
(* (action CallTool), the remote service answers (action Respond), and the *)
(* handler runs on to the next fetch or to its result.                     *)
(* part_002, part_004 and part_005 append a line to logs/abs-api.log as    *)
(* they go (variables logsDir and logFile).                                *)
(*                                                                         *)
(* Strings are TLA+ strings.  A JavaScript value that may be undefined, a  *)
(* string or a number is a record [t, v].  Response bodies are drawn from  *)
(* a small corpus of texts; JSON.parse, trim and startsWith are tabulated  *)
(* on that corpus.  An error is the sequence of the parts its message is   *)
(* concatenated from.                                                      *)
(***************************************************************************)
EXTENDS Integers, Sequences, FiniteSets, TLC

VARIABLES
  impl,           \* the implementation the process runs
  calls,          \* the tool calls: idle slots, calls awaiting a response, results
  dataflowCache,  \* let dataflowCache: 0 for null, else the array it refers to
  heap,           \* the DataflowInfo[] arrays alive in the process
  first,          \* history: the list the first list_dataflows call with a
                  \* successful fetch returned
  now,            \* the system clock: the instants since the process started
  logsDir,        \* whether the logs directory is there and can be written
  logFile         \* the line appended last to logs/abs-api.log, "" for none

vars == <<impl, calls, dataflowCache, heap, first, now, logsDir, logFile>>

----------------------------------------------------------------------------
(* Bounds of the model *)

\* number of call slots (tool calls that may overlap) in SpecCache
MaxCalls == 2
\* number of pages the remote service serves before it answers a paginated
\* listing with an empty page or an error
MaxPages == 2
\* number of instants the system clock passes through after the start
MaxTicks == 2

----------------------------------------------------------------------------
(* JavaScript values *)

Undef == [t |-> "undefined", v |-> ""]
Str(s) == [t |-> "string", v |-> s]
Num(s) == [t |-> "number", v |-> s]

\* JavaScript truthiness of a value: undefined and '' are falsy
Truthy(x) == x.t # "undefined" /\ x.v # ""

\* String.prototype.trim on the sample strings
Trim(s) == CASE s = " " -> ""
             [] s = " F1" -> "F1"
             [] OTHER -> s

Impls == {"index_1", "index_2", "part_001", "part_002", "part_003",
          "part_004", "part_005", "part_006"}

----------------------------------------------------------------------------
(* Argument bags.  request.params.arguments is absent (present = FALSE)    *)
(* or an object; f gives each field's value, Undef for a missing key.      *)

Fields == {"dataflowIdentifier", "dataKey", "startPeriod", "endPeriod",
           "responseFormat", "format", "detail", "dimensionAtObservation",
           "structureType", "agencyId", "structureId", "version",
           "structureVersion", "references", "dataflowId", "metadataType"}

NoFields == [x \in Fields |-> Undef]
NoBag == [present |-> FALSE, f |-> NoFields]

----------------------------------------------------------------------------
(* zod schemas.  A field is [name, enum, required, min, default]: enum is  *)
(* the set of allowed strings ({} for z.string()), min the least length    *)
(* (z.string().min(1)), default the value .default() fills in (Undef when  *)
(* the schema declares none).                                              *)

FStr(n) == [name |-> n, enum |-> {}, required |-> TRUE, min |-> 0, default |-> Undef]
FOpt(n) == [name |-> n, enum |-> {}, required |-> FALSE, min |-> 0, default |-> Undef]
FEnumOpt(n, e) == [name |-> n, enum |-> e, required |-> FALSE, min |-> 0, default |-> Undef]
FDef(n, e, d) == [name |-> n, enum |-> e, required |-> FALSE, min |-> 0, default |-> Str(d)]

XmlJsonCsv == {"xml", "json", "csv"}
CsvFormats == {"csvfile", "csvfilewithlabels"}
ResponseFormat == {"csvfilewithlabels", "csvfile", "jsondata", "genericdata",
                   "structurespecificdata"}
DataDetail == {"full", "dataonly", "serieskeysonly", "nodata"}
StructureType == {"dataflow", "datastructure", "codelist", "conceptscheme",
                  "categoryscheme", "contentconstraint", "actualconstraint",
                  "agencyscheme", "categorisation", "hierarchicalcodelist"}
DetailLevel == {"full", "allstubs", "referencestubs", "referencepartial",
                "allcompletestubs", "referencecompletestubs"}
ReferenceBase == {"none", "parents", "parentsandsiblings", "children",
                  "descendants", "all"}
ReferenceType == ReferenceBase \cup StructureType

\* schemas.ts 11-15 (index_2, part_001, part_003, part_006)
GetDataSchema_schemas ==
  << FStr("dataflowIdentifier"), FStr("dataKey"), FDef("format", XmlJsonCsv, "json") >>

\* part_007 8-14 (index_1)
GetDataSchema_part_007 ==
  << FStr("dataflowIdentifier"), FOpt("dataKey"), FOpt("startPeriod"),
     FOpt("endPeriod"), FDef("responseFormat", {}, "csvfile") >>

\* part_008 38-44 (part_002)
GetDataSchema_part_008 ==
  << [FStr("dataflowIdentifier") EXCEPT !.min = 1], FDef("dataKey", {}, "all"),
     FOpt("startPeriod"), FOpt("endPeriod"),
     FDef("responseFormat", CsvFormats, "csvfilewithlabels") >>

\* part_004 240-248, part_005 351-359
GetDataSchema_part_004 ==
  << FStr("dataflowIdentifier"), FOpt("dataKey"), FOpt("startPeriod"),
     FOpt("endPeriod"), FEnumOpt("format", ResponseFormat),
     FEnumOpt("detail", DataDetail), FOpt("dimensionAtObservation") >>

\* schemas.ts 17-20
GetStructureListSchema ==
  << FStr("structureType"), FStr("agencyId") >>

\* schemas.ts 22-26
GetStructureSchema_schemas ==
  << FStr("structureType"), FStr("agencyId"), FStr("structureId") >>

\* schemas.ts 28-30
GetStructureVersionSchema ==
  GetStructureSchema_schemas \o << FStr("structureVersion") >>

\* schemas.ts 73-75
DataflowDetailsSchema == << FStr("dataflowId") >>

\* part_008 46-48
GetStructureSchema_part_008 == << FStr("dataflowIdentifier") >>

\* part_004 250-270, part_005 361-381
GetStructureSchema_part_004 ==
  << [FEnumOpt("structureType", StructureType) EXCEPT !.required = TRUE],
     FOpt("agencyId"), FOpt("structureId"), FOpt("version"),
     FEnumOpt("detail", DetailLevel), FEnumOpt("references", ReferenceType) >>

\* part_005 383-394
GetMetadataSchema ==
  << FStr("dataflowId"),
     [FEnumOpt("metadataType", {"actualconstraint"}) EXCEPT !.required = TRUE],
     FEnumOpt("detail", DetailLevel), FEnumOpt("references", ReferenceBase) >>

\* part_005 397-399
GetDimensionListSchema == << FStr("dataflowId") >>

\* the tools: Tool[] list of each implementation (the advertised names)
tools(i) ==
  CASE i = "index_1" -> {"get_data", "list_dataflows"}
    [] i \in {"index_2", "part_001", "part_003", "part_006"} ->
         {"get_data", "get_structure_list", "get_structure",
          "get_structure_version", "list_dataflows", "get_dataflow_details"}
    [] i = "part_002" -> {"list_dataflows", "get_structure", "get_data"}
    [] i = "part_004" -> {"api_specification", "get_data", "get_structure"}
    [] i = "part_005" -> {"api_specification", "get_data", "get_structure",
                          "get_metadata", "get_dimension_list"}

\* the zod schema the handler parses a tool's arguments with; HasSchema is
\* FALSE for the switch cases that never parse request.params.arguments
HasSchema(i, name) == name \notin {"list_dataflows", "api_specification"}

SchemaOf(i, name) ==
  CASE name = "get_data" /\ i = "index_1" -> GetDataSchema_part_007
    [] name = "get_data" /\ i = "part_002" -> GetDataSchema_part_008
    [] name = "get_data" /\ i \in {"part_004", "part_005"} -> GetDataSchema_part_004
    [] name = "get_data" -> GetDataSchema_schemas
    [] name = "get_structure" /\ i = "part_002" -> GetStructureSchema_part_008
    [] name = "get_structure" /\ i \in {"part_004", "part_005"} -> GetStructureSchema_part_004
    [] name = "get_structure" -> GetStructureSchema_schemas
    [] name = "get_structure_list" -> GetStructureListSchema
    [] name = "get_structure_version" -> GetStructureVersionSchema
    [] name = "get_dataflow_details" -> DataflowDetailsSchema
    [] name = "get_metadata" -> GetMetadataSchema
    [] name = "get_dimension_list" -> GetDimensionListSchema
    [] OTHER -> << >>

----------------------------------------------------------------------------
(* zod's parse of one object schema *)

\* zod without the enumeration check: z.string() where z.enum() was meant
IssueOf_anyString(fs, x) ==
  CASE x.t = "undefined" ->
         IF fs.required THEN "Required" ELSE ""
    [] x.t = "number" -> "Expected string, received number"
    [] fs.min > 0 /\ x.v = "" -> "String must contain at least 1 character(s)"
    [] OTHER -> ""

\* the issue zod raises for value x of field fs, "" when x is accepted
IssueOf(fs, x) ==
  CASE x.t = "undefined" ->
         IF fs.required THEN "Required" ELSE ""
    [] x.t = "number" -> "Expected string, received number"
    [] fs.enum # {} /\ x.v \notin fs.enum -> "Invalid enum value"
    [] fs.min > 0 /\ x.v = "" -> "String must contain at least 1 character(s)"
    [] OTHER -> ""

\* error.errors of the ZodError: one issue per rejected field, in schema order
RECURSIVE ZodIssues(_, _)
ZodIssues(schema, bag) ==
  IF ~bag.present THEN << [path |-> "", message |-> "Required"] >>
  ELSE IF schema = << >> THEN << >>
  ELSE LET fs == Head(schema)
           m == IssueOf(fs, bag.f[fs.name])
       IN (IF m = "" THEN << >> ELSE << [path |-> fs.name, message |-> m] >>)
          \o ZodIssues(Tail(schema), bag)

\* the parsed arguments: declared fields only, defaults filled in
ZodOutput(schema, bag) ==
  [x \in Fields |->
     IF \E k \in 1..Len(schema) : schema[k].name = x
     THEN LET fs == schema[CHOOSE k \in 1..Len(schema) : schema[k].name = x]
          IN IF bag.f[x].t = "undefined" THEN fs.default ELSE bag.f[x]
     ELSE Undef]

----------------------------------------------------------------------------
(* The remote service: responses and the corpus of body texts *)

EmptyText == ""
NotFoundText == "Could not find requested structures"
XmlText == "<?xml version=1.0?><Structure/>"
HtmlText == "<html>Bad Gateway</html>"
CsvText == "DATAFLOW,TIME_PERIOD,OBS_VALUE"
JsonList1 == "{structures:[F1],data:{structures:[F1],dataflows:[F1]}}"
JsonList2 == "{structures:[F2,F3],data:{structures:[F2,F3],dataflows:[F2,F3]}}"
JsonNoFlows == "{structures:[],data:{structures:[],dataflows:[]}}"
JsonObject == "{content:{id:DS1}}"
JsonComponents == "{data:{dataStructures:[{dataStructureComponents:{}}]}}"
JsonDetails == "{content:{id:DS1,dataStructureComponents:{dimensionList:{dimensions:[{id:FREQ}]}}}}"
JsonDimensions == "{data:{dataStructures:[{dataStructureComponents:{dimensionList:{dimensions:[{id:FREQ}]}}}]}}"
\* a JSON text of more than MAX_RESPONSE_SIZE characters, and its first
\* MAX_RESPONSE_SIZE characters
BigText == "{structures:[F1,F2,F3, ... ]}"
BigTextTruncated == "{structures:[F1,F2,F3, ..."

\* one item of a listing response; "" stands for a missing (undefined) field
Flow(id, name, names0, namesEn, version) ==
  [id |-> id, name |-> name, names0 |-> names0, namesEn |-> namesEn,
   description0 |-> "", agencyID |-> "ABS", agency |-> "ABS", version |-> version]

F1 == Flow("F1", "One", "One", "One", "1.0.0")
\* F2 has no name member and a names list [{ name: 'Two' }]: names.en is
\* undefined on a list
F2 == Flow("F2", "", "Two", "", "2.0.0")
F3 == Flow("F3", "", "", "", "")

\* an optional array of a JSON document
Absent == [some |-> FALSE, items |-> << >>]
Arr(s) == [some |-> TRUE, items |-> s]

\* a parsed JSON document: the members the adapter reads
\* (structures, data.structures, data.dataflows, whether content is there,
\* whether data.dataStructures[0].dataStructureComponents is there).  id is
\* content.id; dimensions, measures, attributes and timeDimensions are the
\* ids of dimensionList.dimensions, measureList.measures, attributeList and
\* timeDimensions of the dataStructureComponents the document holds, under
\* content or under data.dataStructures[0]
Doc(structures, dataStructures, dataDataflows, hasContent) ==
  [structures |-> structures, dataStructures |-> dataStructures,
   dataDataflows |-> dataDataflows, hasContent |-> hasContent,
   hasComponents |-> FALSE, id |-> "", dimensions |-> Absent, measures |-> Absent,
   attributes |-> Absent, timeDimensions |-> Absent]

NoDoc == Doc(Absent, Absent, Absent, FALSE)

\* a listing page large enough for MaxPages of them to reach the cap of
\* getAvailableDataflows (part_003 198): the number of its items
ManyFlows == (1000 + MaxPages - 1) \div MaxPages
JsonManyFlows == "{structures:[F1,F1, ... ,F1]}"

\* JSON.parse on the corpus: ok is FALSE where JSON.parse throws a SyntaxError
JSONParse(text) ==
  CASE text = JsonList1 ->
         [ok |-> TRUE, doc |-> Doc(Arr(<<F1>>), Arr(<<F1>>), Arr(<<F1>>), FALSE)]
    [] text = JsonList2 ->
         [ok |-> TRUE, doc |-> Doc(Arr(<<F2, F3>>), Arr(<<F2, F3>>), Arr(<<F2, F3>>), FALSE)]
    [] text = JsonNoFlows ->
         [ok |-> TRUE, doc |-> Doc(Arr(<< >>), Arr(<< >>), Arr(<< >>), FALSE)]
    [] text = JsonManyFlows ->
         [ok |-> TRUE, doc |-> Doc(Arr([k \in 1..ManyFlows |-> F1]), Absent, Absent, FALSE)]
    [] text = JsonObject ->
         [ok |-> TRUE, doc |-> [Doc(Absent, Absent, Absent, TRUE) EXCEPT !.id = "DS1"]]
    [] text = JsonComponents ->
         [ok |-> TRUE, doc |-> [NoDoc EXCEPT !.hasComponents = TRUE]]
    [] text = JsonDetails ->
         [ok |-> TRUE, doc |-> [Doc(Absent, Absent, Absent, TRUE) EXCEPT
                                  !.id = "DS1", !.dimensions = Arr(<<"FREQ">>)]]
    [] text = JsonDimensions ->
         [ok |-> TRUE, doc |-> [NoDoc EXCEPT !.hasComponents = TRUE,
                                             !.dimensions = Arr(<<"FREQ">>)]]
    [] text = BigText ->
         [ok |-> TRUE, doc |-> Doc(Arr(<<F1, F2, F3>>), Absent, Absent, FALSE)]
    [] OTHER -> [ok |-> FALSE, doc |-> NoDoc]

\* the message of the SyntaxError JSON.parse throws (set by the engine)
SyntaxErrorMessage == "Unexpected token in JSON at position 0"

\* text.trim().startsWith('<?xml') on the corpus
StartsWithXml(text) == text = XmlText

MAX_RESPONSE_SIZE == 900000

\* text.length on the corpus: only BigText is longer than MAX_RESPONSE_SIZE
Length(text) == IF text = BigText THEN MAX_RESPONSE_SIZE + 1 ELSE 40

\* text.substring(0, n) for n = MAX_RESPONSE_SIZE
Substring(text, n) == IF Length(text) > n THEN BigTextTruncated ELSE text

Response(status, statusText, ctype, body) ==
  [status |-> status, statusText |-> statusText, ctype |-> ctype, body |-> body]

\* response.ok
Ok(r) == r.status = "200"

JsonType == "application/vnd.sdmx.structure+json"
Responses ==
  { Response("200", "OK", JsonType, JsonList1),
    Response("200", "OK", JsonType, JsonList2),
    Response("200", "OK", JsonType, JsonNoFlows),
    Response("200", "OK", JsonType, JsonObject),
    Response("200", "OK", JsonType, JsonComponents),
    Response("200", "OK", JsonType, JsonDetails),
    Response("200", "OK", JsonType, JsonDimensions),
    Response("200", "OK", JsonType, BigText),
    Response("200", "OK", JsonType, HtmlText),
    Response("200", "OK", JsonType, EmptyText),
    Response("200", "OK", "application/xml", XmlText),
    Response("200", "OK", "text/csv", CsvText),
    Response("200", "OK", "text/plain", NotFoundText),
    Response("404", "Not Found", "text/plain", NotFoundText),
    Response("500", "Internal Server Error", "text/html", HtmlText) }

\* contentType?.includes(word) on the content types of Responses
Includes(ctype, word) ==
  CASE word = "csv" -> ctype = "text/csv"
    [] word = "json" -> ctype = JsonType
    [] OTHER -> FALSE

----------------------------------------------------------------------------
(* Outbound requests *)

Q(k, v) == [k |-> k, v |-> v]
Request(base, path, query, accept) ==
  [base |-> base, path |-> path, query |-> query, accept |-> accept]
NoRequest == Request("", << >>, << >>, "")

\* URLSearchParams without the filter: an undefined value is sent as ''
NonNull_keepAll(ps) == [k \in 1..Len(ps) |-> Q(ps[k].k, ps[k].v.v)]

\* new URLSearchParams(entries.filter(([_, v]) => v != null)) of part_004:
\* the pairs whose value is not undefined, in the order given
RECURSIVE NonNull(_)
NonNull(ps) ==
  IF ps = << >> THEN << >>
  ELSE (IF Head(ps).v.t = "undefined" THEN << >>
        ELSE << Q(Head(ps).k, Head(ps).v.v) >>) \o NonNull(Tail(ps))

----------------------------------------------------------------------------
(* Outcomes of a tool call.  ok: the handler returned { toolResult }.      *)
(* kind: "json" the value JSON.parse(text); "text" the string text;        *)
(* "data" the object { data: text }; "flagged" { format, content: text };  *)
(* "xmlerror" the structured result of index_2's getData; "list" the list  *)
(* heap[ref]; "details" parseDataflowDetails of JSON.parse(text).          *)
(* An error (ok = FALSE, kind = "error") carries the parts of its message; *)
(* issues are the "path: message" items joined after 'Invalid arguments: '.*)
(* prepared is the header.prepared member of an "xmlerror" result;         *)
(* details are the members of a "details" or "dimensions" result.          *)

\* a DataflowDetails or dimension list: the collections hold { id, name }
Details(id, dimensions, measures, attributes, timeDimensions) ==
  [id |-> id, dimensions |-> dimensions, measures |-> measures,
   attributes |-> attributes, timeDimensions |-> timeDimensions]
NoDetails == Details("", << >>, << >>, << >>, << >>)

Outcome(ok, kind, text, format, ref, msg, issues) ==
  [ok |-> ok, kind |-> kind, text |-> text, format |-> format, ref |-> ref,
   msg |-> msg, issues |-> issues, prepared |-> "", details |-> NoDetails]
NoOutcome == Outcome(FALSE, "none", "", "", 0, << >>, << >>)
Fail(msg) == Outcome(FALSE, "error", "", "", 0, msg, << >>)
Value(kind, text) == Outcome(TRUE, kind, text, "", 0, << >>, << >>)
Flagged(format, text) == Outcome(TRUE, "flagged", text, format, 0, << >>, << >>)
ListAt(ref) == Outcome(TRUE, "list", "", "", ref, << >>, << >>)

----------------------------------------------------------------------------
(* Request builders: the URL (and Accept header) each function fetches.    *)
(* a is the parsed argument object.                                        *)

ABS_API_URL == "https://data.api.abs.gov.au/rest"
ABS_API_BASE_URL == "https://data.api.abs.gov.au"
ABS_DATA_API_URL == "https://api.data.abs.gov.au/data"
ABS_SDMX_API_URL == "https://data.api.abs.gov.au/rest"

\* index.ts 69-72
getData_index_1(a) ==
  Request(ABS_API_URL,
          <<"data", a.dataflowIdentifier.v>>
            \o (IF Truthy(a.dataKey) THEN <<a.dataKey.v>> ELSE << >>),
          << >>, "")

\* index.ts 74-76
listDataflows_index_1_url ==
  Request(ABS_API_URL, <<"dataflow", "all">>,
          <<Q("detail", "allstubs"), Q("references", "none")>>, "")

\* index.ts 241-247
getData_index_2(a) ==
  Request(ABS_API_BASE_URL, <<"rest", "data", a.dataflowIdentifier.v, a.dataKey.v>>,
          <<Q("format", a.format.v)>>, "")

\* index.ts 272-279
getStructureList_index_2(structureType, agencyId) ==
  Request(ABS_API_BASE_URL, <<"rest", structureType, agencyId>>,
          <<Q("format", "json")>>, "")

\* index.ts 281-288
getStructure_index_2(structureType, agencyId, structureId) ==
  Request(ABS_API_BASE_URL, <<"rest", structureType, agencyId, structureId>>,
          <<Q("format", "json")>>, "")

\* index.ts 290-298
getStructureVersion_index_2(a) ==
  Request(ABS_API_BASE_URL,
          <<"rest", a.structureType.v, a.agencyId.v, a.structureId.v, a.structureVersion.v>>,
          <<Q("format", "json")>>, "")

\* part_001 45-52 and part_003 52-60: the Accept header makeRequest sends
AcceptHeader(i, isSDMX) ==
  IF ~isSDMX THEN "application/vnd.sdmx.data+json"
  ELSE IF i = "part_001" THEN "application/vnd.sdmx.structure+json;version=2.1"
  ELSE "application/vnd.sdmx.structure+json; charset=utf-8; version=1.0"

\* part_001 81-88
getData_part_001(a) ==
  Request(ABS_DATA_API_URL, <<a.dataflowIdentifier.v, a.dataKey.v>>,
          <<Q("format", "jsondata"), Q("dimensionAtObservation", "AllDimensions")>>,
          AcceptHeader("part_001", FALSE))

\* part_001 90-96
getStructureList_part_001(structureType, agencyId) ==
  Request(ABS_SDMX_API_URL, <<structureType, agencyId>>, << >>,
          AcceptHeader("part_001", TRUE))

\* part_001 98-105, part_003 134-141
getStructure_sdmx(i, structureType, agencyId, structureId) ==
  Request(ABS_SDMX_API_URL, <<structureType, agencyId, structureId>>, << >>,
          AcceptHeader(i, TRUE))

\* part_001 107-115, part_003 143-151
getStructureVersion_sdmx(i, a) ==
  Request(ABS_SDMX_API_URL,
          <<a.structureType.v, a.agencyId.v, a.structureId.v, a.structureVersion.v>>,
          << >>, AcceptHeader(i, TRUE))

\* part_002 104-125: the URL getData fetches once the identifier passed
getData_part_002(a) ==
  Request(ABS_API_URL,
          <<"data", Trim(a.dataflowIdentifier.v),
            IF a.dataKey.t # "undefined" /\ Trim(a.dataKey.v) # ""
            THEN Trim(a.dataKey.v) ELSE "all">>,
          (IF Truthy(a.startPeriod) THEN <<Q("startPeriod", a.startPeriod.v)>> ELSE << >>)
            \o (IF Truthy(a.endPeriod) THEN <<Q("endPeriod", a.endPeriod.v)>> ELSE << >>)
            \o <<Q("format",
                   IF Truthy(a.responseFormat) THEN a.responseFormat.v
                   ELSE "csvfilewithlabels")>>,
          "")

\* part_002 153-161
listDataflows_part_002_url ==
  Request(ABS_API_URL, <<"dataflow", "all">>, <<Q("detail", "allstubs")>>,
          "application/vnd.sdmx.structure+json")

\* part_002 207-215
getStructure_part_002(a) ==
  Request(ABS_API_URL, <<"datastructure", "ABS", a.dataflowIdentifier.v>>,
          <<Q("references", "all"), Q("detail", "full")>>,
          "application/vnd.sdmx.structure+json")

DEFAULT_PAGE_SIZE == 100

\* part_003 115-122
getData_part_003(a) ==
  Request(ABS_DATA_API_URL, <<a.dataflowIdentifier.v, a.dataKey.v>>,
          <<Q("format", "jsondata"), Q("dimensionAtObservation", "AllDimensions"),
            Q("limit", ToString(DEFAULT_PAGE_SIZE))>>,
          AcceptHeader("part_003", FALSE))

\* part_003 124-132
getStructureList_part_003(structureType, agencyId, page) ==
  Request(ABS_SDMX_API_URL, <<structureType, agencyId>>,
          <<Q("offset", ToString((page - 1) * DEFAULT_PAGE_SIZE)),
            Q("limit", ToString(DEFAULT_PAGE_SIZE))>>,
          AcceptHeader("part_003", TRUE))

\* part_004 99-102, 108-111: the full URL and headers makeRequest fetches
fullUrl_part_004(path, acceptHeader, params) ==
  Request(ABS_API_URL, path, NonNull(params), acceptHeader)

\* part_004 150-156
acceptHeaders(format) ==
  CASE format = "jsondata" -> "application/vnd.sdmx.data+json"
    [] format = "genericdata" -> "application/vnd.sdmx.genericdata+xml"
    [] format = "structurespecificdata" -> "application/vnd.sdmx.structurespecificdata+xml"
    [] format = "csvfile" -> "application/vnd.sdmx.data+csv"
    [] format = "csvfilewithlabels" -> "application/vnd.sdmx.data+csv;labels=both"

\* part_004 139-172: ABSApiClient.getData(dataflowIdentifier, dataKey, options)
getData_part_004(dataflowIdentifier, dataKey, a, optFormat) ==
  fullUrl_part_004(
    <<"data", dataflowIdentifier.v, IF dataKey.t = "undefined" THEN "all" ELSE dataKey.v>>,
    acceptHeaders(IF Truthy(optFormat) THEN optFormat.v ELSE "csvfile"),
    <<Q("startPeriod", a.startPeriod), Q("endPeriod", a.endPeriod),
      Q("format", optFormat), Q("detail", a.detail),
      Q("dimensionAtObservation", a.dimensionAtObservation)>>)

\* part_004 175-192: ABSApiClient.getStructures
getStructures_part_004(structureType, agencyId, detail, references) ==
  fullUrl_part_004(
    <<structureType, IF agencyId.t = "undefined" THEN "ABS" ELSE agencyId.v>>,
    "application/vnd.sdmx.structure+json",
    <<Q("detail", detail), Q("references", references)>>)

\* getStructure without the test of version: the segment is always appended
getStructure_part_004_alwaysVersion(structureType, agencyId, structureId, version, detail, references) ==
  fullUrl_part_004(
    <<structureType, IF agencyId.t = "undefined" THEN "ABS" ELSE agencyId.v, structureId.v,
      version.v>>,
    "application/vnd.sdmx.structure+json",
    <<Q("detail", detail), Q("references", references)>>)

\* part_004 194-213: ABSApiClient.getStructure
getStructure_part_004(structureType, agencyId, structureId, version, detail, references) ==
  fullUrl_part_004(
    <<structureType, IF agencyId.t = "undefined" THEN "ABS" ELSE agencyId.v, structureId.v>>
      \o (IF Truthy(version) THEN <<version.v>> ELSE << >>),
    "application/vnd.sdmx.structure+json",
    <<Q("detail", detail), Q("references", references)>>)

\* part_006 51-58
getData_part_006(a) ==
  Request(ABS_API_BASE_URL, <<"rest", "data", a.dataflowIdentifier.v, a.dataKey.v>>,
          <<Q("format", a.format.v)>>, "")

\* part_006 60-66
getStructureList_part_006(structureType, agencyId) ==
  Request(ABS_API_BASE_URL, <<"rest", structureType, agencyId>>, << >>, "")

\* part_006 68-75
getStructure_part_006(structureType, agencyId, structureId) ==
  Request(ABS_API_BASE_URL, <<"rest", structureType, agencyId, structureId>>, << >>, "")

\* part_006 77-85
getStructureVersion_part_006(a) ==
  Request(ABS_API_BASE_URL,
          <<"rest", a.structureType.v, a.agencyId.v, a.structureId.v, a.structureVersion.v>>,
          << >>, "")

----------------------------------------------------------------------------
(* makeRequest: what each implementation makes of the response r to its    *)
(* fetch.  The result is the value the function returns (an Outcome with   *)
(* ok = TRUE) or the Error it throws.                                      *)

\* index.ts 33-66
makeRequest_index_1(r) ==
  IF ~Ok(r)
  THEN Fail(<<"API request failed (", r.status, "): ", r.statusText, "\n", r.body>>)
  ELSE IF r.body = "" THEN Fail(<<"Empty response received from API">>)
  ELSE IF JSONParse(r.body).ok THEN Value("json", r.body)
  ELSE Fail(<<"Failed to parse response as JSON: ", SyntaxErrorMessage>>)

\* makeRequest without the check for XML: every body goes to JSON.parse
makeRequest_index_2_noXmlCheck(r) ==
  IF ~Ok(r) THEN Fail(<<"API request failed: ", r.statusText>>)
  ELSE IF JSONParse(r.body).ok THEN Value("json", r.body)
  ELSE Flagged("raw", r.body)

\* index.ts 203-238
makeRequest_index_2(r) ==
  IF ~Ok(r) THEN Fail(<<"API request failed: ", r.statusText>>)
  ELSE IF StartsWithXml(r.body) THEN Flagged("xml", r.body)
  ELSE IF JSONParse(r.body).ok THEN Value("json", r.body)
  ELSE Flagged("raw", r.body)

\* part_001 45-78
makeRequest_part_001(r) ==
  IF ~Ok(r) THEN Fail(<<"API request failed: ", r.statusText>>)
  ELSE IF JSONParse(r.body).ok THEN Value("json", r.body)
  ELSE Fail(<<"Failed to parse response as JSON">>)

\* makeRequest without the test of response.ok
makeRequest_part_003_noStatusTest(r) ==
  IF Length(r.body) > MAX_RESPONSE_SIZE
  THEN IF JSONParse(Substring(r.body, MAX_RESPONSE_SIZE)).ok
       THEN Value("json", Substring(r.body, MAX_RESPONSE_SIZE))
       ELSE Fail(<<"Response too large and couldn't parse truncated version">>)
  ELSE IF JSONParse(r.body).ok THEN Value("json", r.body)
  ELSE Fail(<<"Failed to parse response as JSON">>)

\* part_003 52-112: the size check comes before the status check
makeRequest_part_003(r) ==
  IF Length(r.body) > MAX_RESPONSE_SIZE
  THEN IF JSONParse(Substring(r.body, MAX_RESPONSE_SIZE)).ok
       THEN Value("json", Substring(r.body, MAX_RESPONSE_SIZE))
       ELSE Fail(<<"Response too large and couldn't parse truncated version">>)
  ELSE IF ~Ok(r) THEN Fail(<<"API request failed: ", r.statusText>>)
  ELSE IF JSONParse(r.body).ok THEN Value("json", r.body)
  ELSE Fail(<<"Failed to parse response as JSON">>)

\* part_004 93-136, part_005 144-187: ABSApiClient.makeRequest after the fetch
makeRequest_part_004(r) ==
  IF ~Ok(r)
  THEN Fail(<<"API request failed (", r.status, "): ", r.statusText, "\n", r.body>>)
  ELSE IF Includes(r.ctype, "csv") THEN Value("text", r.body)
  ELSE IF Includes(r.ctype, "json")
       THEN IF JSONParse(r.body).ok THEN Value("json", r.body)
            ELSE Fail(<<SyntaxErrorMessage>>)
       ELSE Value("text", r.body)

\* part_006 42-48: response.json() rejects with the engine's SyntaxError
makeRequest_part_006(r) ==
  IF ~Ok(r) THEN Fail(<<"API request failed: ", r.statusText>>)
  ELSE IF JSONParse(r.body).ok THEN Value("json", r.body)
  ELSE Fail(<<SyntaxErrorMessage>>)

\* part_002 137-151: getData after its fetch
getData_part_002_result(r) ==
  IF ~Ok(r)
  THEN Fail(<<"API request failed (", r.status, "): ", r.statusText, "\n", r.body>>)
  ELSE Value("data", r.body)

\* part_002 166-203 and 220-239: listDataflows and getStructure after their
\* fetch, up to JSON.parse
parse_part_002(r) ==
  IF ~Ok(r)
  THEN Fail(<<"API request failed (", r.status, "): ", r.statusText, "\n", r.body>>)
  ELSE IF r.body = "" THEN Fail(<<"Empty response received from API">>)
  ELSE IF JSONParse(r.body).ok THEN Value("json", r.body)
  ELSE Fail(<<"Failed to parse response as JSON: ", SyntaxErrorMessage>>)

\* the makeRequest of the implementations that have one
makeRequest(i, r) ==
  CASE i = "index_1" -> makeRequest_index_1(r)
    [] i = "index_2" -> makeRequest_index_2(r)
    [] i = "part_001" -> makeRequest_part_001(r)
    [] i = "part_002" -> parse_part_002(r)
    [] i = "part_003" -> makeRequest_part_003(r)
    [] i \in {"part_004", "part_005"} -> makeRequest_part_004(r)
    [] i = "part_006" -> makeRequest_part_006(r)

----------------------------------------------------------------------------
(* Dataflow lists.  A list item is a DataflowInfo; a member the            *)
(* implementation does not set is "".                                      *)

Info(id, name, description, agency, version) ==
  [id |-> id, name |-> name, description |-> description, agency |-> agency,
   version |-> version]

\* JavaScript a || b on strings
Or(a, b) == IF a # "" THEN a ELSE b

\* the first array that is there, [] when none is: a || b || []
FirstOf(arrs) ==
  IF \E k \in 1..Len(arrs) : arrs[k].some
  THEN arrs[CHOOSE k \in 1..Len(arrs) :
              arrs[k].some /\ \A j \in 1..(k - 1) : ~arrs[j].some].items
  ELSE << >>

\* the document a makeRequest result holds; a flagged object has no arrays
DocOf(v) == IF v.kind = "json" THEN JSONParse(v.text).doc ELSE NoDoc

\* index.ts 77-83
listDataflows_index_1_map(v) ==
  LET structures == FirstOf(<<DocOf(v).dataStructures, DocOf(v).structures>>)
      item(flow) == Info(flow.id, Or(flow.names0, flow.id), "", "", "")
  IN [k \in 1..Len(structures) |-> item(structures[k])]

XmlPlaceholder ==
  << Info("error", "XML Response - Parsing not implemented",
          "The ABS API returned XML data. XML parsing will be implemented soon.",
          "ABS", "1.0") >>

FetchErrorPlaceholder(description) ==
  << Info("error", "Error fetching dataflows", description, "ABS", "1.0") >>

\* index.ts 300-339
parseDataflowList_index_2(v) ==
  IF v.kind = "flagged" /\ v.format = "xml" THEN XmlPlaceholder
  ELSE LET item(flow) == Info(flow.id, Or(flow.name, flow.id), "", flow.agency, flow.version)
       IN LET items == FirstOf(<<DocOf(v).structures>>)
          IN [k \in 1..Len(items) |-> item(items[k])]

\* part_001 117-145
parseDataflowList_part_001(v) ==
  LET item(flow) == Info(flow.id, Or(flow.names0, flow.id), flow.description0,
                         Or(flow.agencyID, "ABS"), Or(flow.version, "1.0.0"))
  IN LET items == FirstOf(<<DocOf(v).dataStructures>>)
     IN [k \in 1..Len(items) |-> item(items[k])]

\* part_003 153-171 (every document of the corpus is an object)
parseDataflowList_part_003(v) ==
  LET item(flow) == Info(flow.id, Or(flow.names0, flow.id), flow.description0,
                         Or(flow.agencyID, "ABS"), Or(flow.version, "1.0.0"))
  IN LET items == FirstOf(<<DocOf(v).dataStructures, DocOf(v).structures>>)
     IN [k \in 1..Len(items) |-> item(items[k])]

\* part_006 89-111
parseDataflowList_part_006(v) ==
  LET item(flow) == Info(flow.id, Or(flow.name, flow.id), "", flow.agency, flow.version)
  IN LET items == FirstOf(<<DocOf(v).structures>>)
     IN [k \in 1..Len(items) |-> item(items[k])]

\* part_002 181-197
listDataflows_part_002_map(v) ==
  LET item(flow) == Info(flow.id, Or(flow.name, Or(flow.namesEn, flow.id)), "", "",
                         Or(flow.version, "1.0.0"))
  IN LET items == FirstOf(<<DocOf(v).dataDataflows>>)
     IN [k \in 1..Len(items) |-> item(items[k])]

----------------------------------------------------------------------------
(* The CallToolRequestSchema handler, first half: from the request to the  *)
(* first fetch, the thrown error or the returned result.                   *)

\* the handlers that open with: if (!request.params.arguments) throw ...
ArgumentsRequired(i) == i \in {"index_2", "part_001", "part_003", "part_006"}

\* what the first half of a handler comes to: kind is "done" (out is the
\* result or the error), "fetch" (req is sent, pc names the code that waits
\* for the response) or "list" (getAvailableDataflows / listDataflows is
\* called, which reads the cache)
Step(kind, out, req, pc, args) ==
  [kind |-> kind, out |-> out, req |-> req, pc |-> pc, args |-> args]
Throw(msg) == Step("done", Fail(msg), NoRequest, "", NoFields)
Finish(out) == Step("done", out, NoRequest, "", NoFields)
Fetch(req, pc, args) == Step("fetch", NoOutcome, req, pc, args)

\* the catch block of every handler: a ZodError becomes 'Invalid arguments: '
\* followed by one "path: message" per issue, joined by ", "
InvalidArguments(issues) ==
  Step("done", Outcome(FALSE, "error", "", "", 0, <<"Invalid arguments: ">>, issues),
       NoRequest, "", NoFields)

\* the text of DataAPI.openapi.yaml.txt
SpecFileText == "openapi: 3.0.0"

\* part_004 379-387, part_005 561-569
api_specification(fileOk) ==
  IF fileOk THEN Finish(Value("text", SpecFileText))
  ELSE Throw(<<"Failed to read API specification: ", "ENOENT: no such file or directory">>)

\* the case of the switch that runs for a tool whose arguments a parsed to
CaseOf(i, name, a) ==
  CASE name = "get_data" /\ i = "index_1" -> Fetch(getData_index_1(a), "get_data", a)
    [] name = "get_data" /\ i = "index_2" -> Fetch(getData_index_2(a), "get_data", a)
    [] name = "get_data" /\ i = "part_001" -> Fetch(getData_part_001(a), "get_data", a)
    [] name = "get_data" /\ i = "part_002" ->
         IF Trim(a.dataflowIdentifier.v) = "" THEN Throw(<<"dataflowIdentifier is required">>)
         ELSE Fetch(getData_part_002(a), "get_data", a)
    [] name = "get_data" /\ i = "part_003" -> Fetch(getData_part_003(a), "get_data", a)
    [] name = "get_data" /\ i = "part_004" ->
         Fetch(getData_part_004(a.dataflowIdentifier, a.dataKey, a, a.format), "get_data", a)
    [] name = "get_data" /\ i = "part_005" ->
         Fetch(getData_part_004(a.dataflowIdentifier, a.dataKey, a, Str("csvfile")),
               "get_data", a)
    [] name = "get_data" /\ i = "part_006" -> Fetch(getData_part_006(a), "get_data", a)
    [] name = "get_structure_list" /\ i = "index_2" ->
         Fetch(getStructureList_index_2(a.structureType.v, a.agencyId.v), "structure", a)
    [] name = "get_structure_list" /\ i = "part_001" ->
         Fetch(getStructureList_part_001(a.structureType.v, a.agencyId.v), "structure", a)
    [] name = "get_structure_list" /\ i = "part_003" ->
         Fetch(getStructureList_part_003(a.structureType.v, a.agencyId.v, 1), "structure", a)
    [] name = "get_structure_list" /\ i = "part_006" ->
         Fetch(getStructureList_part_006(a.structureType.v, a.agencyId.v), "structure", a)
    [] name = "get_structure" /\ i = "index_2" ->
         Fetch(getStructure_index_2(a.structureType.v, a.agencyId.v, a.structureId.v),
               "structure", a)
    [] name = "get_structure" /\ i \in {"part_001", "part_003"} ->
         Fetch(getStructure_sdmx(i, a.structureType.v, a.agencyId.v, a.structureId.v),
               "structure", a)
    [] name = "get_structure" /\ i = "part_006" ->
         Fetch(getStructure_part_006(a.structureType.v, a.agencyId.v, a.structureId.v),
               "structure", a)
    [] name = "get_structure" /\ i = "part_002" ->
         Fetch(getStructure_part_002(a), "structure", a)
    [] name = "get_structure" /\ i \in {"part_004", "part_005"} ->
         IF Truthy(a.structureId)
         THEN Fetch(getStructure_part_004(a.structureType.v, a.agencyId, a.structureId,
                                          a.version, a.detail, a.references),
                    "structure", a)
         ELSE Fetch(getStructures_part_004(a.structureType.v, a.agencyId, a.detail,
                                           a.references),
                    "structure", a)
    [] name = "get_structure_version" /\ i = "index_2" ->
         Fetch(getStructureVersion_index_2(a), "structure", a)
    [] name = "get_structure_version" /\ i \in {"part_001", "part_003"} ->
         Fetch(getStructureVersion_sdmx(i, a), "structure", a)
    [] name = "get_structure_version" /\ i = "part_006" ->
         Fetch(getStructureVersion_part_006(a), "structure", a)
    [] name = "get_dataflow_details" /\ i = "index_2" ->
         Fetch(getStructure_index_2("datastructure", "ABS", a.dataflowId.v),
               "get_dataflow_details", a)
    [] name = "get_dataflow_details" /\ i \in {"part_001", "part_003"} ->
         Fetch(getStructure_sdmx(i, "datastructure", "ABS", a.dataflowId.v),
               "get_dataflow_details", a)
    [] name = "get_dataflow_details" /\ i = "part_006" ->
         Fetch(getStructure_part_006("datastructure", "ABS", a.dataflowId.v),
               "get_dataflow_details", a)
    [] name = "get_metadata" ->
         Fetch(getStructure_part_004(a.metadataType.v, Undef,
                                     Str("CR_A_" \o a.dataflowId.v), Undef,
                                     a.detail, a.references),
               "get_metadata", a)
    [] name = "get_dimension_list" ->
         Fetch(getStructure_part_004("datastructure", Undef, a.dataflowId, Undef,
                                     Str("full"), Str("none")),
               "get_dimension_list", a)

\* index.ts 121-148 and 489-560, part_001 295-366, part_002 305-347,
\* part_003 335-406, part_004 376-445, part_005 558-658, part_006 249-320
Handler(i, name, bag, fileOk) ==
  IF ArgumentsRequired(i) /\ ~bag.present THEN Throw(<<"Arguments are required">>)
  ELSE IF name \notin tools(i) THEN Throw(<<"Unknown tool: ", name>>)
  ELSE IF name = "api_specification" THEN api_specification(fileOk)
  ELSE IF name = "list_dataflows" THEN Step("list", NoOutcome, NoRequest, "list", NoFields)
  ELSE IF ZodIssues(SchemaOf(i, name), bag) # << >>
       THEN InvalidArguments(ZodIssues(SchemaOf(i, name), bag))
  ELSE CaseOf(i, name, ZodOutput(SchemaOf(i, name), bag))

----------------------------------------------------------------------------
(* The handler, second half: from the response r to the result.            *)

\* new Date().toISOString() at instant t
ISOString(t) == "T" \o ToString(t)

\* index.ts 248-269: getData once makeRequest has returned v, at instant t
getData_index_2_result(a, v, t) ==
  IF v.ok /\ a.format.v = "json" /\ v.kind = "flagged" /\ v.format = "xml"
  THEN [Outcome(TRUE, "xmlerror", v.text, "xml", 0,
                <<"Received XML response when JSON was requested. XML parsing not yet implemented.">>,
                << >>) EXCEPT !.prepared = ISOString(t)]
  ELSE v

\* response.content is there (truthy): the content member of a JSON
\* document, or the text a flagged object of index_2 carries
HasContent(v) ==
  IF v.kind = "json" THEN DocOf(v).hasContent ELSE v.kind = "flagged" /\ v.text # ""

\* items.map(x => ({ id: x.id, name: x.name?.[0]?.name || x.id })) on the
\* ids of the corpus, whose items have no name
Named(items) == [k \in 1..Len(items) |-> [id |-> items[k], name |-> items[k]]]

\* the object parseDataflowDetails builds from response.content: a string
\* (the content of a flagged object) has no members, and String(undefined)
\* is 'undefined' where index.ts and part_006 do not fall back to ''
DetailsOf(i, v) ==
  IF v.kind = "json"
  THEN Details(DocOf(v).id, Named(FirstOf(<<DocOf(v).dimensions>>)),
               Named(FirstOf(<<DocOf(v).measures>>)), FirstOf(<<DocOf(v).attributes>>),
               << >>)
  ELSE Details(IF i \in {"index_2", "part_006"} THEN "undefined" ELSE "",
               << >>, << >>, << >>, << >>)

\* parseDataflowDetails without the test of response.content
parseDataflowDetails_noContentTest(i, v) ==
  IF ~v.ok THEN v
  ELSE [Outcome(TRUE, "details", v.text, v.format, 0, << >>, << >>)
          EXCEPT !.details = DetailsOf(i, v)]

\* index.ts 361-404, part_001 167-208, part_003 212-250, part_006 121-162:
\* getDataflowDetails once makeRequest has returned v
parseDataflowDetails(i, v) ==
  IF ~v.ok THEN v
  ELSE IF HasContent(v)
       THEN [Outcome(TRUE, "details", v.text, v.format, 0, << >>, << >>)
               EXCEPT !.details = DetailsOf(i, v)]
  ELSE IF i = "part_003" THEN Fail(<<"Invalid structure response">>)
  ELSE Fail(<<"Failed to parse dataflow details">>)

\* part_005 615-637: get_metadata once getStructure has returned v
get_metadata_result(v) ==
  IF v.ok /\ v.kind = "text" /\ v.text = NotFoundText
  THEN Value("text", "No data exists")
  ELSE v

\* part_005 266-324: getDimensionList once getStructure has returned v
getDimensionList_result(v) ==
  IF ~v.ok THEN v
  ELSE IF DocOf(v).hasComponents
       THEN [Value("dimensions", v.text) EXCEPT
               !.details = Details("", Named(FirstOf(<<DocOf(v).dimensions>>)), << >>, << >>,
                                   Named(FirstOf(<<DocOf(v).timeDimensions>>)))]
  ELSE Fail(<<"Invalid datastructure response">>)

\* the rest of a switch case other than list_dataflows, resumed with r at
\* instant t
Resume(i, pc, a, r, t) ==
  CASE pc = "get_data" /\ i = "index_2" -> getData_index_2_result(a, makeRequest_index_2(r), t)
    [] pc = "get_data" /\ i = "part_002" -> getData_part_002_result(r)
    [] pc = "get_data" -> makeRequest(i, r)
    [] pc = "structure" -> makeRequest(i, r)
    [] pc = "get_dataflow_details" -> parseDataflowDetails(i, makeRequest(i, r))
    [] pc = "get_metadata" -> get_metadata_result(makeRequest_part_004(r))
    [] pc = "get_dimension_list" -> getDimensionList_result(makeRequest_part_004(r))

----------------------------------------------------------------------------
(* list_dataflows *)

\* the implementations with a dataflowCache
CachesList(i) == i \in {"index_2", "part_001", "part_003", "part_006"}

\* part_003 173 and 206: the list handed back is structuredClone(dataflowCache)
ReturnsClone(i) == i = "part_003"

\* getAvailableDataflows without its first line: every call fetches
CacheHit_never(i, cache) == FALSE

\* index.ts 342, part_001 148, part_003 174, part_006 114: if (dataflowCache)
CacheHit(i, cache) == CachesList(i) /\ cache # 0

\* the fetch of the listing, page counted from 1
ListRequest(i, page) ==
  CASE i = "index_1" -> listDataflows_index_1_url
    [] i = "part_002" -> listDataflows_part_002_url
    [] i = "index_2" -> getStructureList_index_2("dataflow", "ABS")
    [] i = "part_001" -> getStructureList_part_001("dataflow", "ABS")
    [] i = "part_003" -> getStructureList_part_003("dataflow", "ABS", page)
    [] i = "part_006" -> getStructureList_part_006("dataflow", "ABS")

\* error.message: the parts of a message joined
RECURSIVE Join(_)
Join(msg) == IF msg = << >> THEN "" ELSE Head(msg) \o Join(Tail(msg))

MaxDataflows == 1000

\* what the listing comes to once the response r is in: kind is "throw"
\* (out is the error), "fresh" (list is returned, the cache is left alone),
\* "store" (list becomes the cache) or "more" (part_003 fetches page `page`);
\* fetched tells whether the list was made from a fetched document
ListStep(kind, out, list, page, fetched) ==
  [kind |-> kind, out |-> out, list |-> list, page |-> page, fetched |-> fetched]

\* index.ts 74-84
listDataflows_index_1(r) ==
  LET v == makeRequest_index_1(r)
  IN IF ~v.ok THEN ListStep("throw", v, << >>, 0, FALSE)
     ELSE ListStep("fresh", NoOutcome, listDataflows_index_1_map(v), 0, TRUE)

\* part_002 153-204
listDataflows_part_002(r) ==
  LET v == parse_part_002(r)
  IN IF ~v.ok THEN ListStep("throw", v, << >>, 0, FALSE)
     ELSE ListStep("fresh", NoOutcome, listDataflows_part_002_map(v), 0, TRUE)

\* getAvailableDataflows without the assignment to dataflowCache
getAvailableDataflows_index_2_noStore(r) ==
  LET v == makeRequest_index_2(r)
  IN IF ~v.ok THEN ListStep("fresh", NoOutcome, FetchErrorPlaceholder(Join(v.msg)), 0, FALSE)
     ELSE ListStep("fresh", NoOutcome, parseDataflowList_index_2(v), 0, TRUE)

\* index.ts 341-359
getAvailableDataflows_index_2(r) ==
  LET v == makeRequest_index_2(r)
  IN IF ~v.ok THEN ListStep("fresh", NoOutcome, FetchErrorPlaceholder(Join(v.msg)), 0, FALSE)
     ELSE ListStep("store", NoOutcome, parseDataflowList_index_2(v), 0, TRUE)

\* part_001 147-165
getAvailableDataflows_part_001(r) ==
  LET v == makeRequest_part_001(r)
  IN IF ~v.ok THEN ListStep("fresh", NoOutcome, FetchErrorPlaceholder(Join(v.msg)), 0, FALSE)
     ELSE ListStep("store", NoOutcome, parseDataflowList_part_001(v), 0, TRUE)

\* the while loop without the test of dataflows.length: an empty page does
\* not end it
getAvailableDataflows_part_003_noEmptyTest(acc, page, r) ==
  LET v == makeRequest_part_003(r)
      dataflows == parseDataflowList_part_003(v)
      allDataflows == acc \o dataflows
  IN IF ~v.ok THEN ListStep("throw", v, << >>, 0, FALSE)
     ELSE IF ~DocOf(v).structures.some
          THEN ListStep("throw", Fail(<<"Invalid response format from ABS API">>), << >>, 0, FALSE)
     ELSE IF Len(allDataflows) < MaxDataflows
          THEN ListStep("more", NoOutcome, allDataflows, page + 1, TRUE)
     ELSE ListStep("store", NoOutcome, allDataflows, page, TRUE)

\* part_003 176-209: one turn of the while loop, allDataflows = acc
getAvailableDataflows_part_003(acc, page, r) ==
  LET v == makeRequest_part_003(r)
      dataflows == parseDataflowList_part_003(v)
      allDataflows == acc \o dataflows
  IN IF ~v.ok THEN ListStep("throw", v, << >>, 0, FALSE)
     ELSE IF ~DocOf(v).structures.some
          THEN ListStep("throw", Fail(<<"Invalid response format from ABS API">>), << >>, 0, FALSE)
     ELSE IF dataflows # << >> /\ Len(allDataflows) < MaxDataflows
          THEN ListStep("more", NoOutcome, allDataflows, page + 1, TRUE)
     ELSE ListStep("store", NoOutcome, allDataflows, page, TRUE)

\* part_006 113-119
getAvailableDataflows_part_006(r) ==
  LET v == makeRequest_part_006(r)
  IN IF ~v.ok THEN ListStep("throw", v, << >>, 0, FALSE)
     ELSE ListStep("store", NoOutcome, parseDataflowList_part_006(v), 0, TRUE)

ResumeList(i, acc, page, r) ==
  CASE i = "index_1" -> listDataflows_index_1(r)
    [] i = "part_002" -> listDataflows_part_002(r)
    [] i = "index_2" -> getAvailableDataflows_index_2(r)
    [] i = "part_001" -> getAvailableDataflows_part_001(r)
    [] i = "part_003" -> getAvailableDataflows_part_003(acc, page, r)
    [] i = "part_006" -> getAvailableDataflows_part_006(r)

----------------------------------------------------------------------------
(* The log file of part_002, part_004 and part_005.  log(...args) formats  *)
(* one line and appends it to logs/abs-api.log; the model keeps the line   *)
(* appended last.  A write is [threw, file]: whether the call threw, and   *)
(* the file after it.                                                      *)

\* the implementations whose log writes to a file; the log of index.ts and
\* part_003 is console.error
FileLoggers == {"part_002", "part_004", "part_005"}

\* the message of the error appendFileSync throws
FsError == "ENOENT: no such file or directory, open 'logs/abs-api.log'"

\* fs.appendFileSync(logFile, message): throws when the directory is not
\* there or cannot be written
appendFileSync(dir, file, message) ==
  IF dir THEN [threw |-> FALSE, file |-> message] ELSE [threw |-> TRUE, file |-> file]

\* log without its try and catch: the error of appendFileSync gets out
log_uncaught(dir, file, t, label) ==
  appendFileSync(dir, file, "[" \o ISOString(t) \o "] " \o label)

\* part_002 25-36, part_004 24-35, part_005 24-35: the error of
\* appendFileSync is caught and reported on the console
log(dir, file, t, label) ==
  [threw |-> FALSE,
   file |-> appendFileSync(dir, file, "[" \o ISOString(t) \o "] " \o label).file]

NotLogged(file) == [threw |-> FALSE, file |-> file]

\* the lines a handler logs up to its fetch (the last of them): s is what
\* the first half of the handler comes to
LogRequest(i, s, dir, file, t) ==
  CASE i \notin FileLoggers -> NotLogged(file)
    [] s.kind = "list" -> log(dir, file, t, "Headers:")
    [] s.kind = "fetch" /\ i = "part_002" /\ s.pc = "get_data" -> log(dir, file, t, "Periods:")
    [] s.kind = "fetch" /\ i = "part_002" -> log(dir, file, t, "Headers:")
    [] s.kind = "fetch" -> log(dir, file, t, "Accept:")
    [] s.kind = "done" /\ s.out.msg = <<"dataflowIdentifier is required">> ->
         log(dir, file, t, "Error in getData:")
    [] OTHER -> NotLogged(file)

\* the lines a handler logs once the response r is in (the last of them)
LogResponse(i, pc, r, dir, file, t) ==
  CASE i \notin FileLoggers -> NotLogged(file)
    [] i = "part_002" /\ pc = "get_data" ->
         log(dir, file, t, IF Ok(r) THEN "Response Size:" ELSE "Error in getData:")
    [] i = "part_002" /\ ~Ok(r) -> log(dir, file, t, "Error Response:")
    [] i = "part_002" /\ pc = "list" /\ r.body = "" -> log(dir, file, t, "Response Text Length:")
    [] i = "part_002" /\ r.body = "" -> log(dir, file, t, "Response Headers:")
    [] i = "part_002" /\ ~JSONParse(r.body).ok -> log(dir, file, t, "Parse Error:")
    [] i = "part_002" /\ pc = "list" -> log(dir, file, t, "Transformed Dataflows:")
    [] i = "part_002" -> log(dir, file, t, "Raw JSON Structure:")
    [] makeRequest_part_004(r).ok -> log(dir, file, t, "Content-Type:")
    [] OTHER -> log(dir, file, t, "Error making request:")

----------------------------------------------------------------------------
(* The arrays of the process.  An array is alive while dataflowCache or a  *)
(* result held by a caller refers to it.                                   *)

Calls == 1..MaxCalls
Objs == 1..(MaxCalls + 2)

Free == [used |-> FALSE, items |-> << >>]

\* the identity a new array gets
New(h) == CHOOSE o \in Objs : ~h[o].used /\ \A q \in Objs : q < o => h[q].used

Alloc(h, items) == [h EXCEPT ![New(h)] = [used |-> TRUE, items |-> items]]

Holds(call, o) == call.st = "done" /\ call.out.kind = "list" /\ call.out.ref = o

\* garbage collection
Collect(h, cache, cs) ==
  [o \in Objs |-> IF o = cache \/ \E c \in Calls : Holds(cs[c], o) THEN h[o] ELSE Free]

----------------------------------------------------------------------------
(* State and actions *)

NoResponse == Response("", "", "", "")

\* a call slot: reqs are the fetches the call has sent and resp the response
\* it received last; late is history, whether the call started after first
\* was set, and at is history, the instant the call was made
Idle ==
  [st |-> "idle", tool |-> "", bag |-> NoBag, args |-> NoFields, pc |-> "",
   reqs |-> << >>, resp |-> NoResponse, acc |-> << >>, page |-> 0,
   out |-> NoOutcome, late |-> FALSE, at |-> 0]

NoFirst == [some |-> FALSE, items |-> << >>]

Settle(cs, cache, h, f, lf) ==
  /\ calls' = cs
  /\ dataflowCache' = cache
  /\ heap' = Collect(h, cache, cs)
  /\ first' = f
  /\ logFile' = lf
  /\ UNCHANGED <<impl, now, logsDir>>

\* history: f once a list_dataflows call returns items, fetched telling
\* whether its fetch succeeded
Noted(f, fetched, items) ==
  IF fetched /\ ~f.some THEN [some |-> TRUE, items |-> items] ELSE f

\* the client sends tools/call: the handler runs to its first await of fetch
CallTool(c, name, bag, fileOk) ==
  /\ calls[c].st = "idle"
  /\ LET lg == LogRequest(impl, Handler(impl, name, bag, fileOk), logsDir, logFile, now)
         s == IF lg.threw THEN Throw(<<FsError>>) ELSE Handler(impl, name, bag, fileOk)
         call == [Idle EXCEPT !.tool = name, !.bag = bag, !.late = first.some,
                              !.at = now]
         done(out) == [call EXCEPT !.st = "done", !.out = out]
     IN CASE s.kind = "done" ->
               Settle([calls EXCEPT ![c] = done(s.out)], dataflowCache, heap, first, lg.file)
          [] s.kind = "fetch" ->
               Settle([calls EXCEPT ![c] = [call EXCEPT !.st = "wait", !.pc = s.pc,
                                                       !.args = s.args, !.reqs = <<s.req>>]],
                      dataflowCache, heap, first, lg.file)
          [] s.kind = "list" /\ CacheHit(impl, dataflowCache) /\ ReturnsClone(impl) ->
               Settle([calls EXCEPT ![c] = done(ListAt(New(heap)))], dataflowCache,
                      Alloc(heap, heap[dataflowCache].items), first, lg.file)
          [] s.kind = "list" /\ CacheHit(impl, dataflowCache) /\ ~ReturnsClone(impl) ->
               Settle([calls EXCEPT ![c] = done(ListAt(dataflowCache))], dataflowCache,
                      heap, first, lg.file)
          [] s.kind = "list" /\ ~CacheHit(impl, dataflowCache) ->
               Settle([calls EXCEPT ![c] = [call EXCEPT !.st = "wait", !.pc = "list",
                                                       !.page = 1,
                                                       !.reqs = <<ListRequest(impl, 1)>>]],
                      dataflowCache, heap, first, lg.file)

\* the remote service answers the fetch call c awaits: the handler runs on
\* to its next fetch or to its result
Respond(c, r) ==
  /\ calls[c].st = "wait"
  /\ LET call == [calls[c] EXCEPT !.resp = r]
         lg == LogResponse(impl, call.pc, r, logsDir, logFile, now)
         done(out) == [call EXCEPT !.st = "done",
                                   !.out = IF lg.threw THEN Fail(<<FsError>>) ELSE out]
         ls == ResumeList(impl, call.acc, call.page, r)
         stored == Alloc(heap, ls.list)
     IN IF call.pc # "list"
        THEN Settle([calls EXCEPT ![c] = done(Resume(impl, call.pc, call.args, r, now))],
                    dataflowCache, heap, first, lg.file)
        ELSE CASE ls.kind = "throw" ->
                    Settle([calls EXCEPT ![c] = done(ls.out)], dataflowCache, heap, first,
                           lg.file)
               [] ls.kind = "fresh" ->
                    Settle([calls EXCEPT ![c] = done(ListAt(New(heap)))], dataflowCache,
                           stored, Noted(first, ls.fetched, ls.list), lg.file)
               [] ls.kind = "store" /\ ~ReturnsClone(impl) ->
                    Settle([calls EXCEPT ![c] = done(ListAt(New(heap)))], New(heap),
                           stored, Noted(first, ls.fetched, ls.list), lg.file)
               [] ls.kind = "store" /\ ReturnsClone(impl) ->
                    Settle([calls EXCEPT ![c] = done(ListAt(New(stored)))], New(heap),
                           Alloc(stored, ls.list), Noted(first, ls.fetched, ls.list), lg.file)
               [] ls.kind = "more" ->
                    /\ call.page < MaxPages
                    /\ Settle([calls EXCEPT ![c] =
                                 [call EXCEPT !.acc = ls.list, !.page = ls.page,
                                              !.reqs = Append(@, ListRequest(impl, ls.page))]],
                              dataflowCache, heap, first, lg.file)

\* the caller is through with the result of call c
Return(c) ==
  /\ calls[c].st = "done"
  /\ Settle([calls EXCEPT ![c] = Idle], dataflowCache, heap, first, logFile)

\* what a caller pushes onto a list it received
Mutation == Info("X", "pushed by the caller", "", "", "")

\* the caller of call c mutates the list it received
Mutate(c) ==
  /\ calls[c].st = "done"
  /\ calls[c].out.kind = "list"
  /\ \A k \in 1..Len(heap[calls[c].out.ref].items) :
        heap[calls[c].out.ref].items[k] # Mutation
  /\ heap' = [heap EXCEPT ![calls[c].out.ref].items = Append(@, Mutation)]
  /\ UNCHANGED <<impl, calls, dataflowCache, first, now, logsDir, logFile>>

\* the system clock moves on
Tick ==
  /\ now < MaxTicks
  /\ now' = now + 1
  /\ UNCHANGED <<impl, calls, dataflowCache, heap, first, logsDir, logFile>>

\* the logs directory is removed or made read-only, or is restored
Disk ==
  /\ logsDir' = ~logsDir
  /\ UNCHANGED <<impl, calls, dataflowCache, heap, first, now, logFile>>

----------------------------------------------------------------------------
(* The inputs a client may send *)

\* tool names: every advertised name and one no implementation has
Names == UNION {tools(i) : i \in Impls} \cup {"no_such_tool"}

\* a bag with the given members; Undef leaves the member out
GetDataBag(id, key, fmtName, fmt, start) ==
  [present |-> TRUE,
   f |-> [NoFields EXCEPT !["dataflowIdentifier"] = id, !["dataKey"] = key,
                          ![fmtName] = fmt, !["startPeriod"] = start]]

StructureBag(type, agency, id, version) ==
  [present |-> TRUE,
   f |-> [NoFields EXCEPT !["structureType"] = type, !["agencyId"] = agency,
                          !["structureId"] = id, !["version"] = version,
                          !["structureVersion"] = version]]

DataflowBag(id, type) ==
  [present |-> TRUE,
   f |-> [NoFields EXCEPT !["dataflowId"] = id, !["metadataType"] = type]]

EmptyBag == [present |-> TRUE, f |-> NoFields]

\* get_data bags: one member varied at a time around { F1, K1 }, and the
\* bags with more than one member a schema may reject
GetDataBags ==
  { GetDataBag(id, key, fmt[1], fmt[2], start) :
      <<id, key, fmt, start>> \in
        { x \in {Undef, Str("F1"), Str(""), Str(" "), Num("7")}
                \X {Undef, Str("K1")}
                \X {<<"format", Undef>>, <<"format", Str("json")>>,
                    <<"format", Str("xml")>>, <<"format", Str("jsondata")>>,
                    <<"format", Str("bogus")>>, <<"responseFormat", Str("csvfile")>>,
                    <<"responseFormat", Str("bogus")>>}
                \X {Undef, Str("2023")} :
            \/ x[3][2] = Undef /\ x[4] = Undef
            \/ x[1] = Str("F1") /\ x[4] = Undef
            \/ x[1] = Str("F1") /\ x[2] = Str("K1") /\ x[3][2] = Undef
            \/ x[1] \in {Undef, Num("7")} /\ x[2] = Undef /\ x[4] = Undef
                 /\ x[3][2] = Str("bogus") } }

StructureBags ==
  { StructureBag(type, agency, id, version) :
      <<type, agency, id, version>> \in
        { x \in {Undef, Str("dataflow"), Str("bogus")} \X {Undef, Str("ABS")}
                \X {Undef, Str("DS1")} \X {Undef, Str("1.0")} :
            \/ x[1] = Str("dataflow") /\ x[2] = Str("ABS")
            \/ x[1] = Str("dataflow") /\ x[3] = Str("DS1") /\ x[4] = Undef
            \/ x[2] = Undef /\ x[3] = Undef /\ x[4] = Undef
            \/ x[1] = Str("bogus") /\ x[2] = Str("ABS") /\ x[3] = Str("DS1")
                 /\ x[4] = Str("1.0") } }

DataflowBags ==
  { DataflowBag(id, type) :
      id \in {Undef, Str("F1")},
      type \in {Undef, Str("actualconstraint"), Str("bogus")} }

Bags == {NoBag} \cup GetDataBags \cup StructureBags \cup DataflowBags

----------------------------------------------------------------------------
(* Specifications *)

Init ==
  /\ impl \in Impls
  /\ calls = [c \in Calls |-> Idle]
  /\ dataflowCache = 0
  /\ heap = [o \in Objs |-> Free]
  /\ first = NoFirst
  /\ now = 0
  /\ logsDir = TRUE
  /\ logFile = ""

\* one client that sends any call but list_dataflows and waits for its result
Next ==
  \/ \E name \in Names \ {"list_dataflows"}, bag \in Bags, fileOk \in BOOLEAN :
        CallTool(1, name, bag, fileOk)
  \/ \E r \in Responses : Respond(1, r)
  \/ Return(1)

Spec == Init /\ [][Next]_vars

\* the implementations with a list_dataflows tool
ListingImpls == {i \in Impls : "list_dataflows" \in tools(i)}

InitCache == Init /\ impl \in ListingImpls

\* the answers the remote service gives to a listing fetch
ListResponses ==
  {r \in Responses : r.body \in {JsonList1, JsonNoFlows, XmlText, HtmlText}}

\* clients that send list_dataflows calls, which may overlap
NextCache ==
  \/ \E c \in Calls, bag \in {NoBag, EmptyBag} : CallTool(c, "list_dataflows", bag, TRUE)
  \/ \E c \in Calls, r \in ListResponses : Respond(c, r)
  \/ \E c \in Calls : Return(c)

SpecCache == InitCache /\ [][NextCache]_vars

InitOverlap == Init /\ impl \in {"index_2", "part_003"}

\* the same clients, of the two implementations whose getAvailableDataflows
\* writes the cache after an await of its own fetch
SpecOverlap == InitOverlap /\ [][NextCache]_vars

\* the same clients, which may also call a tool that is not there and mutate
\* the lists they receive
NextClients ==
  \/ NextCache
  \/ \E c \in Calls, bag \in {NoBag, EmptyBag} : CallTool(c, "no_such_tool", bag, TRUE)
  \/ \E c \in Calls : Mutate(c)

SpecClients == InitCache /\ [][NextClients]_vars

\* one client that sends list_dataflows calls one after the other, the
\* remote service answering with any response
NextListing ==
  \/ \E bag \in {NoBag, EmptyBag} : CallTool(1, "list_dataflows", bag, TRUE)
  \/ \E r \in Responses : Respond(1, r)
  \/ Return(1)

SpecListing == InitCache /\ [][NextListing]_vars

\* get_data bags for { F1, K1 }: no format and no period, format json, and
\* a start period
ClockBags ==
  {b \in GetDataBags :
     /\ b.f["dataflowIdentifier"] = Str("F1") /\ b.f["dataKey"] = Str("K1")
     /\ b.f["format"] \in {Undef, Str("json")} /\ b.f["responseFormat"] = Undef}

\* the answers the remote service gives to these calls: XML and CSV
ClockResponses == {r \in Responses : r.body \in {XmlText, CsvText}}

\* clients that send get_data calls, which may overlap, while the clock runs
NextClock ==
  \/ \E c \in Calls, bag \in ClockBags : CallTool(c, "get_data", bag, TRUE)
  \/ \E c \in Calls, r \in ClockResponses : Respond(c, r)
  \/ \E c \in Calls : Return(c)
  \/ Tick

SpecClock == Init /\ [][NextClock]_vars

InitPages == Init /\ impl = "part_003"

\* the answers the remote service gives to the fetch of a page
PageResponses ==
  { Response("200", "OK", JsonType, JsonList1),
    Response("200", "OK", JsonType, JsonManyFlows),
    Response("200", "OK", JsonType, JsonNoFlows),
    Response("200", "OK", JsonType, JsonObject),
    Response("200", "OK", JsonType, HtmlText),
    Response("500", "Internal Server Error", "text/html", HtmlText),
    Response("500", "Internal Server Error", JsonType, JsonList1) }

\* two clients of part_003 that send list_dataflows calls, which may
\* overlap; the remote service answers page by page
NextPages ==
  \/ \E c \in {1, 2} : CallTool(c, "list_dataflows", EmptyBag, TRUE)
  \/ \E c \in {1, 2}, r \in PageResponses : Respond(c, r)
  \/ \E c \in {1, 2} : Return(c)

SpecPages == InitPages /\ [][NextPages]_vars

InitLog == Init /\ impl \in FileLoggers

\* one client of an implementation that logs to a file, which sends any call
\* and waits for its result, while the logs directory comes and goes
NextLog ==
  \/ \E name \in Names, bag \in Bags, fileOk \in BOOLEAN : CallTool(1, name, bag, fileOk)
  \/ \E r \in Responses : Respond(1, r)
  \/ Return(1)
  \/ Disk

SpecLog == InitLog /\ [][NextLog]_vars

----------------------------------------------------------------------------
(* The cache of list_dataflows (SpecCache, SpecClients) *)

\* the list a finished call handed to its caller
ListOf(call) == heap[call.out.ref].items

\* call c is a list_dataflows call with an arguments object that started
\* after an earlier list_dataflows call had returned from a successful fetch
LaterCall(c) ==
  calls[c].tool = "list_dataflows" /\ calls[c].bag.present /\ calls[c].late

\* C1: in a sequence of list_dataflows calls whose first fetch succeeded,
\* each later call issues no remote call and returns the content call 1
\* returned.
C1_LaterCallsServedFromCache ==
  \A c \in Calls :
    LaterCall(c) =>
      /\ calls[c].reqs = << >>
      /\ calls[c].st = "done" =>
           calls[c].out.kind = "list" /\ ListOf(calls[c]) = first.items

\* C2 as stated: once the cache is written, no step writes it again,
\* invalidates it or sends another listing fetch.
C2_PopulatedAtMostOnce ==
  [][dataflowCache # 0 =>
       /\ dataflowCache' = dataflowCache
       /\ \A c \in Calls : Len(calls'[c].reqs) <= Len(calls[c].reqs)]_vars

\* C2 as amended: once the cache is written it is never reset to null, a
\* list_dataflows call that starts afterwards sends no fetch and leaves the
\* cache as it is, and the only step that replaces the cache is the return
\* of a call that was already under way when the cache was first written.
C2_WrittenOnlyByCallsUnderWay ==
  [][dataflowCache # 0 =>
       /\ dataflowCache' # 0
       /\ \A c \in Calls :
            calls[c].st = "idle" /\ calls'[c].st # "idle" =>
              /\ calls'[c].late
              /\ calls'[c].reqs = << >>
              /\ dataflowCache' = dataflowCache
       /\ \A c \in Calls : calls[c].late => calls'[c].reqs = << >>
       /\ dataflowCache' # dataflowCache =>
            \E c \in Calls :
              /\ calls[c].st = "wait" /\ calls'[c].st = "done"
              /\ ~calls[c].late
              /\ calls'[c].out.kind = "list"]_vars

\* C2 witness: a call that started after the cache was written was served
\* from it without a fetch, and a call that was under way at that time has
\* since replaced the cache with the list of its own fetch.
C2_Witness ==
  \E c, d \in Calls :
    /\ calls[c].st = "done" /\ calls[c].late /\ calls[c].out.kind = "list"
    /\ calls[c].reqs = << >>
    /\ calls[d].st = "done" /\ ~calls[d].late /\ calls[d].out.kind = "list"
    /\ calls[d].reqs # << >>
    /\ ~ReturnsClone(impl)
    /\ dataflowCache = calls[d].out.ref
    /\ dataflowCache # calls[c].out.ref

\* C3: a caller that mutates the list it received does not change the
\* cache: the cached list never holds what a caller pushed.
C3_CallerCannotCorruptCache ==
  dataflowCache # 0 =>
    \A k \in 1..Len(heap[dataflowCache].items) : heap[dataflowCache].items[k] # Mutation

----------------------------------------------------------------------------
(* Single calls (Spec) *)

\* call c was started and its tool is one the implementation advertises
Called(c, name) ==
  calls[c].st # "idle" /\ calls[c].tool = name /\ name \in tools(impl)

\* the parts of the message of the error call c failed with
Message(c) == {calls[c].out.msg[k] : k \in 1..Len(calls[c].out.msg)}

\* call c failed with 'Invalid arguments: ...' and sent no request
Rejected(c) ==
  /\ calls[c].st = "done" /\ ~calls[c].out.ok
  /\ calls[c].out.msg = <<"Invalid arguments: ">>
  /\ calls[c].out.issues # << >>
  /\ calls[c].reqs = << >>

\* C4: a get_data call with valid arguments that hold no dataKey fetches
\* the path /data/{dataflowIdentifier}/all.
C4_MissingKeyBecomesAll ==
  \A c \in Calls :
    Called(c, "get_data") /\ calls[c].bag.present /\ calls[c].reqs # << >>
      /\ calls[c].bag.f["dataKey"] = Undef =>
        LET path == calls[c].reqs[1].path
        IN Len(path) = 3 /\ path[1] = "data" /\ path[3] = "all"

\* the argument of get_data that names the response format
FormatField(i) == IF i \in {"index_1", "part_002"} THEN "responseFormat" ELSE "format"

\* C5: a get_data call whose response-format argument is a name no schema
\* declares is rejected with a validation error and sends no request.
C5_UnknownFormatRejected ==
  \A c \in Calls :
    Called(c, "get_data") /\ calls[c].bag.present
      /\ calls[c].bag.f[FormatField(impl)] = Str("bogus") =>
        /\ Rejected(c)
        /\ \E k \in 1..Len(calls[c].out.issues) :
             calls[c].out.issues[k].path = FormatField(impl)

\* the declared fields of a schema that a bag offends: a required field that
\* is missing, a value that is no string, a string outside the enumeration
\* or shorter than the least length
Offends(fs, x) ==
  \/ x.t = "undefined" /\ fs.required
  \/ x.t = "number"
  \/ x.t = "string" /\ fs.enum # {} /\ x.v \notin fs.enum
  \/ x.t = "string" /\ x.v = "" /\ fs.min > 0

OffendingFields(schema, bag) ==
  LET bad(fs) == Offends(fs, bag.f[fs.name])
  IN [k \in 1..Len(SelectSeq(schema, bad)) |-> SelectSeq(schema, bad)[k].name]

\* C6 (on the handlers of part_002 and part_004): a call of a tool with
\* declared arguments whose arguments are absent or offend the schema fails
\* with 'Invalid arguments' and sends no request; the error carries one
\* message per offending field, in the order of the schema, and a single
\* message when the arguments are absent altogether.
C6_InvalidArgumentsRejected ==
  \A c \in Calls :
    LET call == calls[c]
        schema == SchemaOf(impl, call.tool)
    IN impl \in {"part_002", "part_004"} /\ call.st # "idle"
         /\ call.tool \in tools(impl) /\ HasSchema(impl, call.tool)
         /\ (~call.bag.present \/ OffendingFields(schema, call.bag) # << >>) =>
           /\ Rejected(c)
           /\ IF call.bag.present
              THEN [k \in 1..Len(call.out.issues) |-> call.out.issues[k].path]
                     = OffendingFields(schema, call.bag)
              ELSE Len(call.out.issues) = 1

\* C6 witness: part_004 rejected a get_data call with two offending
\* arguments, with two messages.
C6_Witness ==
  \E c \in Calls :
    /\ impl = "part_004" /\ Called(c, "get_data") /\ Rejected(c)
    /\ calls[c].bag.f["dataflowIdentifier"] = Num("7")
    /\ calls[c].bag.f["format"] = Str("bogus")
    /\ Len(calls[c].out.issues) = 2

\* C7: a call of a tool the implementation does not advertise fails with
\* the unknown-tool error whatever its arguments are (none included), sends
\* no request and leaves the dataflow cache as it was.
C7_UnknownToolRejected ==
  [][\A c \in Calls :
       calls[c].st = "idle" /\ calls'[c].st # "idle" /\ calls'[c].tool \notin tools(impl) =>
         /\ calls'[c].st = "done" /\ ~calls'[c].out.ok
         /\ calls'[c].out.msg = <<"Unknown tool: ", calls'[c].tool>>
         /\ calls'[c].reqs = << >>
         /\ dataflowCache' = dataflowCache]_vars

\* call c received a response with a status that is not a success
Refused(c) ==
  calls[c].st = "done" /\ calls[c].resp # NoResponse /\ ~Ok(calls[c].resp)

\* C8: a call the remote service answers with a non-success status fails
\* with an error that carries the status code and the body verbatim.
C8_RemoteErrorCarriesStatusAndBody ==
  \A c \in Calls :
    Refused(c) =>
      /\ ~calls[c].out.ok
      /\ calls[c].resp.status \in Message(c)
      /\ calls[c].resp.body \in Message(c)

\* text.substring(0, 500) on the corpus, whose texts are shorter
Excerpt(text) == text

\* the calls of index_2 and part_001 that declare JSON: every fetch of
\* part_001 (Accept: ...+json), the structure fetches of index_2
\* (?format=json) and its get_data with format json
JsonDeclared(c) ==
  \/ impl = "part_001"
  \/ impl = "index_2" /\ (calls[c].pc = "get_data" => calls[c].args["format"] = Str("json"))

\* C9: when JSON was declared and the body of a successful response is not
\* JSON, the call fails with a parse error that holds the first 500
\* characters of the body.
C9_ParseErrorCarriesExcerpt ==
  \A c \in Calls :
    calls[c].st = "done" /\ calls[c].resp # NoResponse /\ Ok(calls[c].resp)
      /\ JsonDeclared(c) /\ ~JSONParse(calls[c].resp.body).ok =>
        /\ ~calls[c].out.ok
        /\ Excerpt(calls[c].resp.body) \in Message(c)

\* C10 (index_2): when get_data asked for json and the body of the
\* successful response is XML (it opens with an XML declaration), the call
\* returns, without raising, the structured result flagged "xml" whose
\* content is the body unchanged.
C10_XmlForJsonIsFlagged ==
  \A c \in Calls :
    impl = "index_2" /\ Called(c, "get_data") /\ calls[c].st = "done"
      /\ calls[c].args["format"] = Str("json")
      /\ Ok(calls[c].resp) /\ StartsWithXml(calls[c].resp.body) =>
        /\ calls[c].out.ok
        /\ calls[c].out.kind = "xmlerror"
        /\ calls[c].out.format = "xml"
        /\ calls[c].out.text = calls[c].resp.body

\* C10 witness: index_2 answered a get_data call for json with the
\* structured result that holds the XML body.
C10_Witness ==
  \E c \in Calls :
    /\ impl = "index_2" /\ Called(c, "get_data") /\ calls[c].st = "done"
    /\ calls[c].args["format"] = Str("json")
    /\ calls[c].resp.body = XmlText /\ Ok(calls[c].resp)
    /\ calls[c].out.ok /\ calls[c].out.text = XmlText

----------------------------------------------------------------------------
(* Request building (Spec) *)

\* the first request call c sent
FirstRequest(c) == calls[c].reqs[1]

\* the query parameters of the first request of call c
QueryOf(c) == {FirstRequest(c).query[k] : k \in 1..Len(FirstRequest(c).query)}

\* C12: a get_data call (to part_002 or part_004) that names no response
\* format asks for CSV with labels, by the format parameter or by the
\* Accept header.
C12_DefaultFormatIsCsvWithLabels ==
  \A c \in Calls :
    impl \in {"part_002", "part_004"} /\ Called(c, "get_data") /\ calls[c].reqs # << >>
      /\ calls[c].bag.f[FormatField(impl)] = Undef =>
        \/ Q("format", "csvfilewithlabels") \in QueryOf(c)
        \/ FirstRequest(c).accept = "application/vnd.sdmx.data+csv;labels=both"

\* C13: a get_data call (to part_004 or part_005) that asks for one of the
\* five declared formats sends the Accept header of that format.
C13_RequestedFormatIsSent ==
  \A c \in Calls :
    impl \in {"part_004", "part_005"} /\ Called(c, "get_data") /\ calls[c].reqs # << >>
      /\ calls[c].bag.f["format"].t = "string"
      /\ calls[c].bag.f["format"].v \in ResponseFormat =>
        FirstRequest(c).accept = acceptHeaders(calls[c].bag.f["format"].v)

\* C14 (part_004 and part_005, whose handlers are the same here): a
\* get_structure call without a structure id fetches /{structureType}/{agency},
\* whatever version it names; with a structure id it fetches
\* /{structureType}/{agency}/{structureId}, followed by /{version} exactly
\* when a version is given.  A missing agency is ABS.
C14_StructurePathForms ==
  \A c \in Calls :
    impl \in {"part_004", "part_005"} /\ Called(c, "get_structure")
      /\ calls[c].reqs # << >> =>
        LET f == calls[c].bag.f
            agency == IF f["agencyId"] = Undef THEN "ABS" ELSE f["agencyId"].v
            path == FirstRequest(c).path
        IN IF f["structureId"] \in {Undef, Str("")}
           THEN path = <<f["structureType"].v, agency>>
           ELSE IF f["version"] \in {Undef, Str("")}
                THEN path = <<f["structureType"].v, agency, f["structureId"].v>>
                ELSE path = <<f["structureType"].v, agency, f["structureId"].v,
                              f["version"].v>>

\* C14 witness: part_004 sent the list form for a call that names a version
\* but no structure id.
C14_Witness ==
  \E c \in Calls :
    /\ impl = "part_004" /\ Called(c, "get_structure") /\ calls[c].reqs # << >>
    /\ calls[c].bag.f["structureId"] = Undef /\ calls[c].bag.f["version"] = Str("1.0")
    /\ FirstRequest(c).path = <<"dataflow", "ABS">>

\* the identifier of call c is missing, empty or blank
NoIdentifier(c) ==
  \/ ~calls[c].bag.present
  \/ calls[c].bag.f["dataflowIdentifier"] \in {Undef, Str(""), Str(" ")}

\* C15: a get_data call (to part_002 or part_004) or get_structure call (to
\* part_002) whose dataflowIdentifier is missing or empty fails without a
\* request.
C15_MissingIdentifierSendsNothing ==
  \A c \in Calls :
    /\ \/ impl \in {"part_002", "part_004"} /\ Called(c, "get_data")
       \/ impl = "part_002" /\ Called(c, "get_structure")
    /\ NoIdentifier(c)
    => /\ calls[c].reqs = << >>
       /\ calls[c].st = "done" /\ ~calls[c].out.ok

\* the optional query parameters
OptionalParameters ==
  {"startPeriod", "endPeriod", "detail", "dimensionAtObservation", "references"}

----------------------------------------------------------------------------
(* Listings (SpecListing) *)

\* call c is a finished list_dataflows call whose last fetch was answered
\* with a success status and a JSON document
Listed(c) ==
  /\ Called(c, "list_dataflows") /\ calls[c].st = "done"
  /\ calls[c].resp # NoResponse /\ Ok(calls[c].resp)
  /\ JSONParse(calls[c].resp.body).ok

\* the JSON document text holds none of the arrays a listing is read from
LacksList(text) ==
  LET doc == JSONParse(text).doc
  IN ~doc.structures.some /\ ~doc.dataStructures.some /\ ~doc.dataDataflows.some

\* C17: list_dataflows (of part_002 or part_003) answered with a JSON
\* document that holds no structures or dataflows array returns the empty
\* list and does not fail.
C17_MissingArrayGivesEmptyList ==
  \A c \in Calls :
    impl \in {"part_002", "part_003"} /\ Listed(c) /\ LacksList(calls[c].resp.body) =>
      /\ calls[c].out.ok /\ calls[c].out.kind = "list"
      /\ ListOf(calls[c]) = << >>

\* the items of the array the implementation reads the listing from
ItemsRead(i, text) ==
  IF i = "part_002" THEN FirstOf(<<JSONParse(text).doc.dataDataflows>>)
  ELSE FirstOf(<<JSONParse(text).doc.dataStructures>>)

\* C18: for every item without a name member, list_dataflows (of part_001 or
\* part_002) reports the name of the first entry of the item's names list
\* when there is one, and the item's id when there is none.
C18_NameFromLocalizedList ==
  \A c \in Calls :
    impl \in {"part_001", "part_002"} /\ Listed(c) /\ calls[c].out.kind = "list" =>
      LET items == ItemsRead(impl, calls[c].resp.body)
          list == ListOf(calls[c])
      IN /\ Len(list) = Len(items)
         /\ \A k \in 1..Len(items) :
              items[k].name = "" =>
                list[k].name = IF items[k].names0 # "" THEN items[k].names0
                               ELSE items[k].id

\* C20: a list_dataflows call, with an empty arguments object or with none,
\* is never turned down before the listing runs: if it fails, it fails after
\* a fetch.
C20_ListingNeedsNoArguments ==
  \A c \in Calls :
    Called(c, "list_dataflows") /\ calls[c].st = "done" /\ ~calls[c].out.ok =>
      calls[c].reqs # << >>

----------------------------------------------------------------------------
(* The clock (SpecClock) *)

\* the calendar year of instant t: the process starts in 2025 and the year
\* turns at every instant of the clock
Year(t) == 2025 + t

\* C11: a get_data call (to part_002) without startPeriod and endPeriod
\* sends startPeriod = the year before the year of the call and endPeriod =
\* the year of the call.
C11_PeriodsDefaultFromClock ==
  \A c \in Calls :
    impl = "part_002" /\ Called(c, "get_data") /\ calls[c].reqs # << >>
      /\ calls[c].bag.f["startPeriod"] = Undef /\ calls[c].bag.f["endPeriod"] = Undef =>
        /\ Q("startPeriod", ToString(Year(calls[c].at) - 1)) \in QueryOf(c)
        /\ Q("endPeriod", ToString(Year(calls[c].at))) \in QueryOf(c)

\* C19: two get_data calls (to index_2 or part_002) with the same arguments
\* that received the same response each sent one request of their own and
\* returned the same result.
C19_SameArgumentsSameResult ==
  \A c, d \in Calls :
    impl \in {"index_2", "part_002"}
      /\ Called(c, "get_data") /\ Called(d, "get_data")
      /\ calls[c].st = "done" /\ calls[d].st = "done"
      /\ calls[c].bag = calls[d].bag
      /\ calls[c].resp # NoResponse /\ calls[c].resp = calls[d].resp =>
        /\ Len(calls[c].reqs) = 1 /\ Len(calls[d].reqs) = 1
        /\ calls[c].out = calls[d].out

----------------------------------------------------------------------------
(* Failures of the listing (SpecListing) *)

\* the last fetch of call c failed: a status that is not a success, or a
\* body that is not a JSON document
FetchFailed(c) ==
  /\ calls[c].resp # NoResponse
  /\ ~Ok(calls[c].resp) \/ ~JSONParse(calls[c].resp.body).ok

\* list holds a placeholder record, id 'error'
HoldsPlaceholder(list) == \E k \in 1..Len(list) : list[k].id = "error"

\* C21: a list_dataflows call (to index_2 or part_001) whose fetch or parse
\* failed returns an error, and no list_dataflows call returns a list that
\* holds a placeholder record.
C21_ListingFailureIsAnError ==
  \A c \in Calls :
    impl \in {"index_2", "part_001"} /\ Called(c, "list_dataflows")
      /\ calls[c].st = "done" =>
        /\ FetchFailed(c) => ~calls[c].out.ok
        /\ calls[c].out.kind = "list" => ~HoldsPlaceholder(ListOf(calls[c]))

----------------------------------------------------------------------------
(* The log file (SpecLog) *)

\* the outcome of finished call c is the one its handler computes from the
\* arguments and the response alone
OutcomeFromInputs(c) ==
  LET call == calls[c]
      s == Handler(impl, call.tool, call.bag, TRUE)
      ls == ResumeList(impl, << >>, 1, call.resp)
  IN IF s.kind = "done" THEN call.out = s.out /\ call.reqs = << >>
     ELSE IF s.kind = "fetch"
          THEN call.out = Resume(impl, s.pc, s.args, call.resp, call.at)
     ELSE IF ls.kind = "throw" THEN call.out = ls.out
     ELSE call.out.kind = "list" /\ ListOf(call) = ls.list

\* C22 (part_002, and part_004 and part_005 whose log is the same): whether
\* or not the log file can be written, a finished tool call has the outcome,
\* result or error, that its arguments and the response determine.
C22_LoggingNeverChangesOutcome ==
  \A c \in Calls :
    impl \in FileLoggers /\ calls[c].st = "done" /\ calls[c].tool # "api_specification" =>
      OutcomeFromInputs(c)

\* C22 witness: part_002 returned the data of a get_data call while the log
\* could not be written: nothing was appended to it.
C22_Witness ==
  \E c \in Calls :
    /\ impl = "part_002" /\ Called(c, "get_data") /\ calls[c].st = "done"
    /\ ~logsDir /\ logFile = ""
    /\ calls[c].resp.body = CsvText /\ calls[c].out = Value("data", CsvText)

----------------------------------------------------------------------------
(* Dataflow details (Spec) *)

\* C23 (index_2, part_001, part_003, part_006): a get_dataflow_details call
\* answered with a JSON document fails when the document has no content
\* member, and otherwise returns the details, in which the dimensions, the
\* measures and the attributes are empty wherever the document does not
\* hold them.
C23_DetailsDefaultToEmpty ==
  \A c \in Calls :
    Called(c, "get_dataflow_details") /\ calls[c].st = "done"
      /\ calls[c].resp # NoResponse /\ Ok(calls[c].resp)
      /\ JSONParse(calls[c].resp.body).ok =>
        LET doc == JSONParse(calls[c].resp.body).doc
            details == calls[c].out.details
        IN IF ~doc.hasContent THEN ~calls[c].out.ok
           ELSE /\ calls[c].out.ok /\ calls[c].out.kind = "details"
                /\ details.id = doc.id
                /\ Len(details.dimensions) = Len(doc.dimensions.items)
                /\ ~doc.dimensions.some => details.dimensions = << >>
                /\ ~doc.measures.some => details.measures = << >>
                /\ ~doc.attributes.some => details.attributes = << >>

\* C23 witness: part_003 returned the details of a document that holds one
\* dimension and neither measures nor attributes.
C23_Witness ==
  \E c \in Calls :
    /\ impl = "part_003" /\ Called(c, "get_dataflow_details") /\ calls[c].st = "done"
    /\ calls[c].resp.body = JsonDetails /\ calls[c].out.ok
    /\ calls[c].out.details.dimensions = <<[id |-> "FREQ", name |-> "FREQ"]>>
    /\ calls[c].out.details.measures = << >>
    /\ calls[c].out.details.attributes = << >>

----------------------------------------------------------------------------
(* Response bodies (Spec) *)

\* C24 (get_data of part_002; get_data and the structure tools of
\* part_003): when the response is a success, the text the call returns or
\* parses is the body as it was received: part_002 returns it, and part_003
\* returns the document it holds whenever the body is a JSON document.
C24_BodyIsNeverTruncated ==
  \A c \in Calls :
    calls[c].st = "done" /\ calls[c].resp # NoResponse /\ Ok(calls[c].resp) =>
      /\ impl = "part_002" /\ calls[c].pc = "get_data" =>
           calls[c].out.ok /\ calls[c].out.text = calls[c].resp.body
      /\ impl = "part_003" /\ calls[c].pc \in {"get_data", "structure"}
           /\ JSONParse(calls[c].resp.body).ok =>
             calls[c].out.ok /\ calls[c].out.text = calls[c].resp.body

----------------------------------------------------------------------------
(* Pagination of part_003 (SpecPages) *)

\* the items of the page the response r holds, << >> when r is no page
PageItems(r) ==
  IF Ok(r) /\ JSONParse(r.body).ok /\ JSONParse(r.body).doc.structures.some
  THEN JSONParse(r.body).doc.structures.items
  ELSE << >>

\* request q asks for page k: offset (k - 1) * 100, limit 100
AsksForPage(q, k) ==
  /\ q.path = <<"dataflow", "ABS">>
  /\ q.query = <<Q("offset", ToString((k - 1) * DEFAULT_PAGE_SIZE)),
                 Q("limit", ToString(DEFAULT_PAGE_SIZE))>>

\* C25: a list_dataflows call of part_003 sends one page request at a time:
\* the first asks for page 1, and the request for page k + 1 is sent in the
\* step in which the awaited response to the request for page k arrives,
\* only if that page holds records and the records accumulated with it are
\* fewer than 1000.
C25_PagesAreFetchedInOrder ==
  [][\A c \in Calls :
       calls'[c].tool = "list_dataflows" /\ calls'[c].reqs # calls[c].reqs =>
         LET n == Len(calls[c].reqs)
         IN /\ calls'[c].reqs = Append(calls[c].reqs, calls'[c].reqs[n + 1])
            /\ AsksForPage(calls'[c].reqs[n + 1], n + 1)
            /\ n = 0 => calls[c].st = "idle"
            /\ n > 0 =>
                 /\ calls[c].st = "wait" /\ calls'[c].st = "wait"
                 /\ PageItems(calls'[c].resp) # << >>
                 /\ Len(calls'[c].acc) = Len(calls[c].acc) + Len(PageItems(calls'[c].resp))
                 /\ Len(calls'[c].acc) < MaxDataflows]_vars

\* C25 witness: a call asked for pages 1 and 2 and ended with the 1000
\* records it had then accumulated.
C25_Witness ==
  \E c \in Calls :
    /\ calls[c].st = "done" /\ calls[c].out.kind = "list"
    /\ Len(calls[c].reqs) = MaxPages
    /\ \A k \in 1..MaxPages : AsksForPage(calls[c].reqs[k], k)
    /\ Len(ListOf(calls[c])) >= MaxDataflows

----------------------------------------------------------------------------
(* Overlapping first calls (SpecOverlap) *)

\* the ids of the items of a list
Ids(list) == [k \in 1..Len(list) |-> list[k].id]

\* call c is a list_dataflows call of index_2 or part_003 that started
\* before the cache was written
FirstCall(cs, c) ==
  /\ impl \in {"index_2", "part_003"}
  /\ cs[c].st # "idle" /\ cs[c].tool = "list_dataflows" /\ cs[c].bag.present
  /\ ~cs[c].late

\* the last fetch of call c was answered with a page of a JSON listing
GotPage(cs, c) ==
  /\ cs[c].st = "done" /\ Ok(cs[c].resp) /\ JSONParse(cs[c].resp.body).ok
  /\ JSONParse(cs[c].resp.body).doc.structures.some

\* C26 (index_2, part_003): every list_dataflows call that starts before
\* the cache is written sends its own fetch, also while another such call
\* is under way; when its fetches succeed it returns the items of the pages
\* it received itself, in order; and the step in which it returns leaves in
\* the cache the list it returns, so that the cache holds the list of the
\* call that finished last.
C26_OverlappingCallsFetchTheirOwn ==
  /\ [](\A c \in Calls :
          FirstCall(calls, c) =>
            /\ calls[c].reqs # << >>
            /\ GotPage(calls, c) =>
                 /\ calls[c].out.kind = "list"
                 /\ Ids(ListOf(calls[c])) =
                      Ids(calls[c].acc) \o Ids(PageItems(calls[c].resp)))
  /\ [][\A c \in Calls :
          FirstCall(calls, c) /\ calls[c].st = "wait" /\ GotPage(calls', c) =>
            /\ dataflowCache' # 0
            /\ heap'[dataflowCache'].items = heap'[calls'[c].out.ref].items]_vars

\* C26 witness: two calls of part_003 that both started before the cache
\* was written have each fetched and returned their own list, the lists
\* differ, and the cache holds the list of the second.
C26_Witness ==
  \E c, d \in Calls :
    /\ impl = "part_003" /\ c # d
    /\ FirstCall(calls, c) /\ GotPage(calls, c)
    /\ FirstCall(calls, d) /\ GotPage(calls, d)
    /\ ListOf(calls[c]) # << >> /\ ListOf(calls[d]) = << >>
    /\ heap[dataflowCache].items = ListOf(calls[d])

----------------------------------------------------------------------------
(* What the cache holds (SpecListing) *)

\* C27 (index_2): the cache never holds a placeholder record, and every
\* step that writes the cache is the return of a call whose fetch was
\* answered with a success status and a JSON document.
C27_CacheHoldsOnlyParsedListings ==
  /\ [](impl = "index_2" /\ dataflowCache # 0 =>
          ~HoldsPlaceholder(heap[dataflowCache].items))
  /\ [][impl = "index_2" /\ dataflowCache' # dataflowCache =>
          \E c \in Calls :
            /\ calls[c].st = "wait" /\ calls'[c].st = "done"
            /\ Ok(calls'[c].resp) /\ JSONParse(calls'[c].resp.body).ok]_vars

----------------------------------------------------------------------------
(* Failed pages (SpecPages) *)

\* the response r to a page fetch is a failure: a status that is not a
\* success, a body that is no JSON document, a document without structures
PageFailed(r) ==
  \/ ~Ok(r)
  \/ ~JSONParse(r.body).ok
  \/ ~JSONParse(r.body).doc.structures.some

\* C28 (part_003): the step in which a page fetch of a list_dataflows call
\* fails ends the call with an error, leaves the cache as it was (null, if
\* no other call has written it) and leaves no array that holds the records
\* accumulated so far; and a list_dataflows call that starts while the
\* cache is null starts with the request for page 1 and nothing
\* accumulated.
C28_FailedPageDiscardsEverything ==
  [][\A c \in Calls :
       /\ calls[c].st = "wait" /\ calls'[c] # calls[c] /\ PageFailed(calls'[c].resp) =>
            /\ calls'[c].st = "done" /\ ~calls'[c].out.ok
            /\ dataflowCache' = dataflowCache
            /\ \A o \in Objs : heap'[o].used => heap'[o] = heap[o]
       /\ calls[c].st = "idle" /\ calls'[c].st # "idle" /\ dataflowCache = 0 =>
            /\ calls'[c].st = "wait" /\ calls'[c].acc = << >>
            /\ Len(calls'[c].reqs) = 1 /\ AsksForPage(calls'[c].reqs[1], 1)]_vars

\* C28 witness: a call failed on its second page with a record accumulated
\* from the first, and the cache is null.
C28_Witness ==
  \E c \in Calls :
    /\ calls[c].st = "done" /\ ~calls[c].out.ok
    /\ Len(calls[c].reqs) = 2 /\ calls[c].acc # << >>
    /\ PageFailed(calls[c].resp)
    /\ dataflowCache = 0

----------------------------------------------------------------------------
(* The number of page requests (SpecPages) *)

\* C29 (part_003): every page request of a list_dataflows call but the
\* first was sent for a record accumulated before it, and a call that
\* awaits a page has accumulated fewer than 1000 records: a call never
\* sends more than 1000 page requests.
C29_RequestsBoundedByRecords ==
  \A c \in Calls :
    calls[c].tool = "list_dataflows" =>
      /\ Len(calls[c].reqs) <= Len(calls[c].acc) + 1
      /\ calls[c].st = "wait" => Len(calls[c].acc) < MaxDataflows
      /\ Len(calls[c].reqs) <= MaxDataflows

\* C29 witness: a call that awaits its second page with one record
\* accumulated, far from the cap.
C29_Witness ==
  \E c \in Calls :
    /\ calls[c].st = "wait" /\ Len(calls[c].reqs) = 2
    /\ Len(calls[c].acc) = 1

----------------------------------------------------------------------------
(* get_metadata (Spec) *)

\* C30 (part_005): a get_metadata call that the schema accepts fetches
\* /{metadataType}/ABS/CR_A_{dataflowId}, and whenever the body of the
\* response is 'Could not find requested structures' the call returns the
\* result 'No data exists'.
C30_NotFoundMeansNoData ==
  \A c \in Calls :
    Called(c, "get_metadata") /\ calls[c].reqs # << >> =>
      /\ FirstRequest(c).path =
           <<calls[c].bag.f["metadataType"].v, "ABS",
             "CR_A_" \o calls[c].bag.f["dataflowId"].v>>
      /\ calls[c].st = "done" /\ calls[c].resp.body = NotFoundText =>
           calls[c].out = Value("text", "No data exists")

====
